---- MODULE Spec2Model ----
(***************************************************************************)
(* A model of the API security analysis engine of the api-analysis-service *)
(* (services/api-analysis-service).                                        *)
(*                                                                         *)
(* The subsystems are modelled each with its own next-state relation       *)
(* over one shared set of variables:                                       *)
(*   Spec        the bulk endpoint analysis of AnalysisService as driven   *)
(*               by the POST /analyze/bulk route                           *)
(*   SpecController  the same analysis as driven by BatchController        *)
(*   SpecStuck   a bulk job one of whose analyses never returns, with      *)
(*               the fairness of the event loop                            *)
(*   SpecAI      AISecurityAnalyzer: response cache, rate gate, provider   *)
(*   SpecAIConcurrent  the same analyzer called by two tasks at once       *)
(*   SpecSwagger OpenAPIAnalysisService.analyze_swagger_url                *)
(*   SpecAnalyzer  the rule-based SecurityAnalyzer.analyze_endpoint        *)
(*   SpecBatch   BatchController.analyze_endpoints_batch, chunk by chunk   *)
(*   SpecCacheFill  sequential successful calls of the AI analyzer with    *)
(*               distinct fingerprints                                     *)
(*   SpecStorage the StorageService: its lock, its calls and               *)
(*               cleanup_old_analyses, with the fairness of the event loop *)
(*                                                                         *)
(* Scheduling is asyncio's: one coroutine runs at a time and control can   *)
(* change hands only at an await.  An action is the code between two       *)
(* awaits at which the coroutine may be suspended.                         *)
(***************************************************************************)
EXTENDS Integers, Sequences, FiniteSets, TLC

\* Python's None.  No entity, record or non-empty list of the model equals it.
None == <<>>

(***************************************************************************)
(* Bounds of the model.                                                    *)
(***************************************************************************)
\* longest endpoint list of one bulk request
MaxEndpoints == 3
\* largest batch_size of a chunked batch request
MaxBatchSize == 2
\* settings.MAX_CONCURRENT_ANALYSES: read from the environment at start-up
\* (core/config.py:43, default 10).  The model takes a value below
\* MaxEndpoints so that tasks have to queue for a free slot.
MAX_CONCURRENT_ANALYSES == 2
\* analyses one SecurityAnalyzer is asked for
MaxAnalyses == 3
\* distinct fingerprints a lone caller of the AI analyzer asks for: one more
\* than the size at which _cache_response starts to clean
MaxFingerprints == 101
\* calls each of the concurrent callers of the AI analyzer makes
MaxConcurrentCalls == 1
\* most optional query parameters of one operation of a document
MaxOptionalParameters == 21

(***************************************************************************)
(* Strings the code inspects are sequences of characters.                  *)
(***************************************************************************)
StartsWith(s, prefix) ==
    /\ Len(s) >= Len(prefix)
    /\ SubSeq(s, 1, Len(prefix)) = prefix

Has(s, ch) == \E i \in 1..Len(s) : s[i] = ch

\* str.find(ch) on positions from..Len(s): the first index, 0 if absent
FindFrom(s, chars, from) ==
    LET hits == {i \in from..Len(s) : s[i] \in chars}
    IN  IF hits = {} THEN 0 ELSE CHOOSE i \in hits : \A k \in hits : i <= k

HttpPrefix  == <<"h","t","t","p",":","/","/">>
HttpsPrefix == <<"h","t","t","p","s",":","/","/">>

\* "http://a.test"
UrlGood == HttpPrefix \o <<"a",".","t","e","s","t">>
\* "https://[b" : passes the prefix validation, urlparse raises on it
UrlBadHost == HttpsPrefix \o <<"[","b">>
\* "not-a-url"
UrlNotAUrl == <<"n","o","t","-","a","-","u","r","l">>

Urls == {UrlGood, UrlBadHost, UrlNotAUrl}

\* a faulty variant of the definition below: accepts every endpoint
AcceptAnyEndpoint(endpoint) == TRUE
\* the validation of one endpoint of a bulk request
ValidEndpoint(endpoint) ==
    StartsWith(endpoint, HttpPrefix) \/ StartsWith(endpoint, HttpsPrefix)

\* urllib.parse.urlparse: the network location is what follows "//" up to
\* the first of "/", "?", "#"
Netloc(url) ==
    LET colon == FindFrom(url, {":"}, 1)
        rest  == IF colon > 1 THEN SubSeq(url, colon + 1, Len(url)) ELSE url
    IN  IF StartsWith(rest, <<"/","/">>)
        THEN LET stop == FindFrom(rest, {"/","?","#"}, 3)
             IN  SubSeq(rest, 3, IF stop = 0 THEN Len(rest) ELSE stop - 1)
        ELSE <<>>

\* urlparse raises ValueError("Invalid IPv6 URL") on an unbalanced bracket
UrlparseRaises(url) ==
    LET netloc == Netloc(url)
    IN  \/ Has(netloc, "[") /\ ~Has(netloc, "]")
        \/ Has(netloc, "]") /\ ~Has(netloc, "[")

(***************************************************************************)
(* State.                                                                  *)
(***************************************************************************)
VARIABLES
    \* ---- bulk analysis (AnalysisService, routes.py, BatchController) ----
    request,        \* per submission: the bulk request (None before it)
    response,       \* per submission: what the submission returned
    bulk_status,    \* AnalysisService._bulk_analysis_status: request_id -> job
    phase,          \* per submission: where process_bulk_analysis stands
    task,           \* per submission: its analyze_with_semaphore coroutines
    semaphore,      \* per submission: the value of its asyncio.Semaphore
    storage,        \* StorageService._analyses: entity id -> entity
    storage_lock,   \* StorageService._lock: whether the asyncio.Lock is locked
    cleanup,        \* a cleanup_old_analyses coroutine (returned: <<n>> once it has)
    storage_op,     \* a coroutine calling save_, get_ or delete_analysis
    \* ---- chunked batch (BatchController.analyze_endpoints_batch) ----
    batch,          \* the analyze_endpoints_batch coroutine and its tasks
    \* ---- AISecurityAnalyzer ----
    now,                \* time.time(), in seconds
    ticks,              \* how often the clock has advanced
    response_cache,     \* AISecurityAnalyzer._response_cache
    last_request_time,  \* AISecurityAnalyzer._last_request_time
    caller,             \* per caller: its analyze_endpoint coroutine
    outbound,           \* per cache key: session.post calls issued so far
    last_post,          \* when the latest session.post was issued
    \* ---- OpenAPIAnalysisService ----
    swagger_service,    \* the service object (None before it is constructed)
    swagger_call,       \* the analyze_swagger_url coroutine
    \* ---- SecurityAnalyzer ----
    analyses            \* what its analyze_endpoint calls returned, in order

bulk_vars == <<request, response, bulk_status, phase, task, semaphore, storage>>
ai_vars   == <<now, ticks, response_cache, last_request_time, caller, outbound,
               last_post>>
swagger_vars == <<swagger_service, swagger_call>>
analyzer_vars == <<analyses>>
batch_vars == <<batch>>
storage_vars == <<storage_lock, cleanup, storage_op>>
vars      == <<bulk_vars, ai_vars, swagger_vars, analyzer_vars, batch_vars,
               storage_vars>>

\* what the bulk analysis / the AI analyzer / the Swagger analysis leave alone
not_bulk     == <<ai_vars, swagger_vars, analyzer_vars, batch_vars, storage_vars>>
not_ai       == <<bulk_vars, swagger_vars, analyzer_vars, batch_vars, storage_vars>>
not_swagger  == <<bulk_vars, ai_vars, analyzer_vars, batch_vars, storage_vars>>
not_analyzer == <<bulk_vars, ai_vars, swagger_vars, batch_vars, storage_vars>>
\* a chunked batch writes storage and nothing else of the bulk jobs
not_batch    == <<request, response, bulk_status, phase, task, semaphore,
                 ai_vars, swagger_vars, analyzer_vars, storage_vars>>
\* the calls of the StorageService write storage and its own coroutines
not_storage  == <<request, response, bulk_status, phase, task, semaphore,
                 ai_vars, swagger_vars, analyzer_vars, batch_vars>>

\* the submissions the model admits
JobIds == {"job-1", "job-2"}

EndpointLists == UNION {[1..n -> Urls] : n \in 0..MaxEndpoints}

EmptyDict == [k \in {} |-> None]

\* d[key] = value of a Python dict
DictSet(d, key, value) ==
    [k \in DOMAIN d \cup {key} |-> IF k = key THEN value ELSE d[k]]

\* d.get(key)
DictGet(d, key) == IF key \in DOMAIN d THEN d[key] ELSE None

(***************************************************************************)
(* Entities.                                                               *)
(***************************************************************************)
\* ApiAnalysisEntity: id is a fresh uuid4 per constructed entity; the n-th
\* entity constructed by the analysis of endpoint i of submission j is
\* <<j, i, n>>
ApiAnalysisEntity(id, status, endpoint) ==
    [id |-> id, status |-> status, endpoint |-> endpoint]

\* StorageService.save_analysis
save_analysis(store, analysis) == DictSet(store, analysis.id, analysis)

\* a faulty variant of the definition below: every response object gets the same id
SharedRequestId(j) == "job-1"
\* BulkAnalysisResponse.request_id: default_factory draws a fresh uuid4 for
\* every response object, so two submissions never share one
RequestId(j) == j

\* a faulty variant of the definition below: the job record does not take the number of endpoints
StartWithoutTotal(request_id, endpoints) ==
    [request_id |-> request_id, total_endpoints |-> 0, completed |-> 0,
     failed |-> 0, results |-> <<>>, status |-> "processing"]
\* AnalysisService.start_bulk_analysis: the job record it creates
start_bulk_analysis(request_id, endpoints) ==
    [request_id      |-> request_id,
     total_endpoints |-> Len(endpoints),
     completed       |-> 0,
     failed          |-> 0,
     results         |-> <<>>,
     status          |-> "processing"]

\* AnalysisService.get_bulk_analysis_status: a read of the dict
get_bulk_analysis_status(request_id) == DictGet(bulk_status, request_id)

\* what a submission hands back: the job object as it is at that moment
Handle(bulk) ==
    [code            |-> 200,
     request_id      |-> bulk.request_id,
     total_endpoints |-> bulk.total_endpoints,
     completed       |-> bulk.completed,
     failed          |-> bulk.failed,
     status          |-> bulk.status]

(***************************************************************************)
(* Initial state: a service that has just started.                         *)
(***************************************************************************)
BulkInit ==
    /\ request     = [j \in JobIds |-> None]
    /\ response    = [j \in JobIds |-> None]
    /\ bulk_status = EmptyDict
    /\ phase       = [j \in JobIds |-> "unused"]
    /\ task        = [j \in JobIds |-> <<>>]
    /\ semaphore   = [j \in JobIds |-> 0]
    /\ storage     = EmptyDict

(***************************************************************************)
(* AnalysisService.process_bulk_analysis (BatchController's copy is the    *)
(* same code up to the dict lookup).                                       *)
(***************************************************************************)
\* asyncio.gather(..., return_exceptions=True): one result per task, in
\* submission order; analyze_with_semaphore returns the entity or None
GatherResults(tasks) == [i \in 1..Len(tasks) |-> tasks[i].result]

\* a faulty variant of the definition below: a successful result is also counted as failed
ProcessResultCountsTwice(bulk, result) ==
    IF result # None
    THEN [bulk EXCEPT !.results = Append(@, result), !.completed = @ + 1]
    ELSE [bulk EXCEPT !.failed = @ + 1, !.completed = @ + 1]
\* one iteration of the "Process results" loop
ProcessResult(bulk, result) ==
    IF result # None
    THEN [bulk EXCEPT !.results = Append(@, result), !.completed = @ + 1]
    ELSE [bulk EXCEPT !.failed = @ + 1]

RECURSIVE ProcessResults(_, _)
ProcessResults(bulk, results) ==
    IF results = <<>> THEN bulk
    ELSE ProcessResults(ProcessResult(bulk, Head(results)), Tail(results))

\* a faulty variant of the definition below: the tally is written but the status is left as it was
FinishBulkLeavesStatus(bulk, results) == ProcessResults(bulk, results)
\* a faulty variant of the definition below: one failed result fails the job
FinishBulkAbortsOnFailure(bulk, results) ==
    IF \E k \in 1..Len(results) : results[k] = None
    THEN [bulk EXCEPT !.status = "failed"]
    ELSE [ProcessResults(bulk, results) EXCEPT !.status = "completed"]
\* the loop over the gathered results, then the status
FinishBulk(bulk, results) ==
    [ProcessResults(bulk, results) EXCEPT !.status = "completed"]

\* The coroutine up to its await of gather: the job is looked up, the
\* semaphore and the tasks are created.  gather of no task is done at once
\* and the coroutine runs to its end without being suspended.
StartProcessing(j, endpoints) ==
    /\ semaphore' = [semaphore EXCEPT ![j] = MAX_CONCURRENT_ANALYSES]
    /\ task' = [task EXCEPT ![j] =
           [i \in 1..Len(endpoints) |-> [pc |-> "queued", result |-> None]]]
    /\ phase' = [phase EXCEPT ![j] =
           IF endpoints = <<>> THEN "done" ELSE "gathering"]

\* the background task added by the submission starts to run
process_bulk_analysis_start(j) ==
    /\ phase[j] = "submitted"
    /\ StartProcessing(j, request[j].endpoints)
    /\ IF request[j].endpoints = <<>>
       THEN bulk_status' = [bulk_status EXCEPT ![RequestId(j)] = FinishBulk(@, <<>>)]
       ELSE UNCHANGED bulk_status
    /\ UNCHANGED <<request, response, storage>>
    /\ UNCHANGED not_bulk

\* a faulty variant of the definition below: acquire never waits
SemaphoreAlwaysFree(j) == TRUE
\* asyncio.Semaphore.acquire returns only while the value is positive
SemaphoreFree(j) == semaphore[j] > 0

\* gather starts the tasks in submission order and the semaphore wakes its
\* waiters first-in first-out: the next task to enter is the first queued
FirstQueued(j) ==
    LET queued == {i \in 1..Len(task[j]) : task[j][i].pc = "queued"}
    IN  IF queued = {} THEN 0 ELSE CHOOSE i \in queued : \A k \in queued : i <= k

\* analyze_with_semaphore up to the await of the analysis inside
\* analyze_endpoint: the semaphore is taken, the entity is created with
\* status "analyzing" and saved
analyze_with_semaphore_enter(j, i) ==
    /\ phase[j] = "gathering"
    /\ i = FirstQueued(j)
    /\ SemaphoreFree(j)
    /\ semaphore' = [semaphore EXCEPT ![j] = @ - 1]
    /\ task' = [task EXCEPT ![j][i].pc = "analyzing"]
    /\ storage' = save_analysis(storage,
           ApiAnalysisEntity(<<j, i, 1>>, "analyzing", request[j].endpoints[i]))
    /\ UNCHANGED <<request, response, bulk_status, phase>>
    /\ UNCHANGED not_bulk

\* SecurityAnalyzer.analyze_endpoint raises exactly when urlparse does
AnalysisRaises(endpoint) == UrlparseRaises(endpoint)

\* The rest of analyze_endpoint and of analyze_with_semaphore.  On success
\* the entity becomes "completed", is saved again and returned; on an
\* exception a new entity with status "failed" is saved, the exception is
\* re-raised and analyze_with_semaphore turns it into None.  Leaving the
\* "async with" releases the semaphore.
analyze_with_semaphore_exit(j, i) ==
    /\ phase[j] = "gathering"
    /\ i \in 1..Len(task[j])
    /\ task[j][i].pc = "analyzing"
    /\ IF AnalysisRaises(request[j].endpoints[i])
       THEN /\ storage' = save_analysis(storage,
                   ApiAnalysisEntity(<<j, i, 2>>, "failed", request[j].endpoints[i]))
            /\ task' = [task EXCEPT ![j][i] = [pc |-> "raised", result |-> None]]
       ELSE LET entity == ApiAnalysisEntity(<<j, i, 1>>, "completed",
                                            request[j].endpoints[i])
            IN  /\ storage' = save_analysis(storage, entity)
                /\ task' = [task EXCEPT ![j][i] =
                       [pc |-> "returned", result |-> entity]]
    /\ semaphore' = [semaphore EXCEPT ![j] = @ + 1]
    /\ UNCHANGED <<request, response, bulk_status, phase>>
    /\ UNCHANGED not_bulk

\* An await inside analyze_endpoint (storage.save_analysis, which waits for
\* the storage lock and writes a file) never completes.  Nothing bounds it:
\* neither analyze_with_semaphore nor gather has a timeout.  The task keeps
\* its semaphore slot.  At most one analysis of a job is taken to hang.
analyze_endpoint_never_returns(j, i) ==
    /\ phase[j] = "gathering"
    /\ i \in 1..Len(task[j])
    /\ task[j][i].pc = "analyzing"
    /\ \A k \in 1..Len(task[j]) : task[j][k].pc # "stuck"
    /\ task' = [task EXCEPT ![j][i].pc = "stuck"]
    /\ UNCHANGED <<request, response, bulk_status, phase, semaphore, storage>>
    /\ UNCHANGED not_bulk

TaskSettled(t) == t.pc \in {"returned", "raised"}

\* gather has every result: tally them and complete the job.  A submission
\* that awaited the processing itself returns its handle only now.
process_bulk_analysis_finish(j) ==
    /\ phase[j] = "gathering"
    /\ \A i \in 1..Len(task[j]) : TaskSettled(task[j][i])
    /\ LET done == FinishBulk(bulk_status[RequestId(j)], GatherResults(task[j]))
       IN  /\ bulk_status' = [bulk_status EXCEPT ![RequestId(j)] = done]
           /\ response' = IF response[j] = None
                          THEN [response EXCEPT ![j] = Handle(done)]
                          ELSE response
    /\ phase' = [phase EXCEPT ![j] = "done"]
    /\ UNCHANGED <<request, task, semaphore, storage>>
    /\ UNCHANGED not_bulk

(***************************************************************************)
(* Submission.                                                             *)
(***************************************************************************)
\* the first endpoint the validation loop rejects, 0 if none
FirstInvalid(endpoints) ==
    LET bad == {i \in 1..Len(endpoints) : ~ValidEndpoint(endpoints[i])}
    IN  IF bad = {} THEN 0 ELSE CHOOSE i \in bad : \A k \in bad : i <= k

\* the validation loop: it raises at the first invalid endpoint, before
\* anything is created
Rejected(j, endpoints, code) ==
    /\ response' = [response EXCEPT ![j] =
           [code |-> code, detail |-> endpoints[FirstInvalid(endpoints)]]]
    /\ phase' = [phase EXCEPT ![j] = "rejected"]
    /\ UNCHANGED <<bulk_status, task, semaphore>>

\* POST /analyze/bulk, routes.analyze_endpoints_bulk: validate (HTTP 400),
\* start_bulk_analysis, background_tasks.add_task, return the job
analyze_endpoints_bulk(j, endpoints) ==
    /\ phase[j] = "unused"
    /\ request' = [request EXCEPT ![j] =
           [endpoints |-> endpoints, background_tasks |-> TRUE]]
    /\ IF FirstInvalid(endpoints) # 0
       THEN Rejected(j, endpoints, 400)
       ELSE LET bulk == start_bulk_analysis(RequestId(j), endpoints)
            IN  /\ bulk_status' = DictSet(bulk_status, RequestId(j), bulk)
                /\ response' = [response EXCEPT ![j] = Handle(bulk)]
                /\ phase' = [phase EXCEPT ![j] = "submitted"]
                /\ UNCHANGED <<task, semaphore>>
    /\ UNCHANGED storage
    /\ UNCHANGED not_bulk

\* BatchController.analyze_endpoints_bulk: _validate_endpoints raises
\* ValueError; with background_tasks the processing is added as a task and
\* the job is returned, without them the processing is awaited first.  The
\* controller's own dict holds the same job objects under the same ids as
\* the service's.
BatchController_analyze_endpoints_bulk(j, endpoints, background_tasks) ==
    /\ phase[j] = "unused"
    /\ request' = [request EXCEPT ![j] =
           [endpoints |-> endpoints, background_tasks |-> background_tasks]]
    /\ IF FirstInvalid(endpoints) # 0
       THEN Rejected(j, endpoints, "ValueError")
       ELSE LET bulk == start_bulk_analysis(RequestId(j), endpoints)
            IN  IF background_tasks
                THEN /\ bulk_status' = DictSet(bulk_status, RequestId(j), bulk)
                     /\ response' = [response EXCEPT ![j] = Handle(bulk)]
                     /\ phase' = [phase EXCEPT ![j] = "submitted"]
                     /\ UNCHANGED <<task, semaphore>>
                ELSE /\ StartProcessing(j, endpoints)
                     /\ IF endpoints = <<>>
                        THEN /\ bulk_status' = DictSet(bulk_status, RequestId(j),
                                                       FinishBulk(bulk, <<>>))
                             /\ response' = [response EXCEPT ![j] =
                                    Handle(FinishBulk(bulk, <<>>))]
                        ELSE /\ bulk_status' = DictSet(bulk_status, RequestId(j), bulk)
                             /\ UNCHANGED response
    /\ UNCHANGED storage
    /\ UNCHANGED not_bulk

(***************************************************************************)
(* BatchController.analyze_endpoints_batch: the chunked strategy.          *)
(***************************************************************************)
Min(a, b) == IF a <= b THEN a ELSE b

\* request.endpoints[i:i + request.batch_size]: the positions (from 1) of
\* the endpoints of the chunk that starts at offset i (from 0) of n endpoints
BatchSlice(n, i, batch_size) == (i + 1)..Min(i + batch_size, n)

\* range(0, len(request.endpoints), request.batch_size)
BatchRange(n, batch_size) == {i \in 0..(n - 1) : i % batch_size = 0}

BatchInit ==
    batch = [pc |-> "idle", endpoints |-> <<>>, batch_size |-> 1, i |-> 0,
             tasks |-> <<>>, chunks |-> <<>>, batch_results |-> None,
             returned |-> None]

\* one iteration of the chunk loop up to its await of gather: a coroutine
\* per endpoint of the slice, in order
BatchTasks(endpoints, i, batch_size) ==
    LET slice == BatchSlice(Len(endpoints), i, batch_size)
    IN  [k \in 1..Cardinality(slice) |->
            [index |-> i + k, pc |-> "queued", result |-> None]]

\* the positions a chunk's tasks were created for
TaskIndices(tasks) == {tasks[k].index : k \in 1..Len(tasks)}

\* a faulty variant of the definition below: gather returns when its first task has
BatchGatheredFirst(tasks) == tasks # <<>> /\ TaskSettled(tasks[1])
\* asyncio.gather(*batch_tasks, return_exceptions=True) returns when
\* every task of the chunk has settled
BatchGathered(tasks) == \A k \in 1..Len(tasks) : TaskSettled(tasks[k])

\* the "Add results" loop: the same tally as the bulk jobs'
BatchAddResults(batch_results, tasks) ==
    ProcessResults(batch_results, GatherResults(tasks))

\* POST of a chunked batch: validation, the response object, then the first
\* chunk up to its gather; no endpoint at all completes at once
analyze_endpoints_batch(endpoints, batch_size) ==
    /\ batch.pc = "idle"
    /\ IF FirstInvalid(endpoints) # 0
       THEN batch' = [batch EXCEPT
                !.pc = "rejected", !.endpoints = endpoints,
                !.batch_size = batch_size,
                !.returned = [code |-> "ValueError",
                              detail |-> endpoints[FirstInvalid(endpoints)]]]
       ELSE LET batch_results == start_bulk_analysis("batch", endpoints)
            IN  IF endpoints = <<>>
                THEN batch' = [batch EXCEPT
                         !.pc = "done", !.batch_size = batch_size,
                         !.batch_results = [batch_results EXCEPT !.status = "completed"],
                         !.returned = [batch_results EXCEPT !.status = "completed"]]
                ELSE batch' = [batch EXCEPT
                         !.pc = "gathering", !.endpoints = endpoints,
                         !.batch_size = batch_size, !.i = 0,
                         !.tasks = BatchTasks(endpoints, 0, batch_size),
                         !.chunks = <<TaskIndices(BatchTasks(endpoints, 0, batch_size))>>,
                         !.batch_results = batch_results]
    /\ UNCHANGED storage
    /\ UNCHANGED not_batch

\* the event loop starts the tasks of a gather in the order they were given
FirstQueuedOfBatch ==
    LET queued == {k \in 1..Len(batch.tasks) : batch.tasks[k].pc = "queued"}
    IN  IF queued = {} THEN 0 ELSE CHOOSE k \in queued : \A m \in queued : k <= m

\* _analyze_endpoint_with_options up to the await inside analyze_endpoint:
\* no semaphore is taken; the entity is created with status "analyzing" and
\* saved
analyze_endpoint_with_options_enter(k) ==
    /\ batch.pc = "gathering"
    /\ k = FirstQueuedOfBatch
    /\ batch' = [batch EXCEPT !.tasks[k].pc = "analyzing"]
    /\ storage' = save_analysis(storage,
           ApiAnalysisEntity(<<"batch", batch.tasks[k].index, 1>>, "analyzing",
                             batch.endpoints[batch.tasks[k].index]))
    /\ UNCHANGED not_batch

\* what _analyze_endpoint_with_options hands to gather when analyze_endpoint
\* has raised: its except clause returns a new entity with status "failed"
OptionsResultOnError(index, endpoint) ==
    ApiAnalysisEntity(<<"batch", index, 3>>, "failed", endpoint)

\* the rest of analyze_endpoint and of _analyze_endpoint_with_options
analyze_endpoint_with_options_exit(k) ==
    /\ batch.pc = "gathering"
    /\ k \in 1..Len(batch.tasks)
    /\ batch.tasks[k].pc = "analyzing"
    /\ LET index    == batch.tasks[k].index
           endpoint == batch.endpoints[index]
       IN  IF AnalysisRaises(endpoint)
           THEN /\ storage' = save_analysis(storage,
                       ApiAnalysisEntity(<<"batch", index, 2>>, "failed", endpoint))
                /\ batch' = [batch EXCEPT !.tasks[k] =
                       [index |-> index, pc |-> "raised",
                        result |-> OptionsResultOnError(index, endpoint)]]
           ELSE LET entity == ApiAnalysisEntity(<<"batch", index, 1>>,
                                                "completed", endpoint)
                IN  /\ storage' = save_analysis(storage, entity)
                    /\ batch' = [batch EXCEPT !.tasks[k] =
                           [index |-> index, pc |-> "returned", result |-> entity]]
    /\ UNCHANGED not_batch

\* gather of the chunk has every result: they are tallied, then the loop
\* goes on with the next slice or the batch is completed and returned
analyze_endpoints_batch_next ==
    /\ batch.pc = "gathering"
    /\ BatchGathered(batch.tasks)
    /\ LET tallied == BatchAddResults(batch.batch_results, batch.tasks)
           i       == batch.i + batch.batch_size
       IN  IF i \in BatchRange(Len(batch.endpoints), batch.batch_size)
           THEN batch' = [batch EXCEPT
                    !.i = i,
                    !.tasks = BatchTasks(batch.endpoints, i, batch.batch_size),
                    !.chunks = Append(@, TaskIndices(
                                   BatchTasks(batch.endpoints, i, batch.batch_size))),
                    !.batch_results = tallied]
           ELSE batch' = [batch EXCEPT
                    !.pc = "done",
                    !.batch_results = [tallied EXCEPT !.status = "completed"],
                    !.returned = [tallied EXCEPT !.status = "completed"]]
    /\ UNCHANGED storage
    /\ UNCHANGED not_batch

(***************************************************************************)
(* StorageService (services/storage_service.py): the lock, the calls that  *)
(* take it and cleanup_old_analyses.  The files the service writes and     *)
(* deletes mirror _analyses and are left out.                              *)
(***************************************************************************)
\* seconds of a day, and the default age limit of cleanup_old_analyses
SecondsPerDay == 86400
CleanupDays == 30

\* the entities single analyze_endpoint calls save
StorageIds == {<<"call", 1, 1>>, <<"call", 2, 1>>}

\* an ApiAnalysisEntity with its timestamp (default_factory
\* datetime.utcnow), which the bulk model leaves out
TimedEntity(id, timestamp) ==
    [id |-> id, status |-> "completed", endpoint |-> UrlGood,
     timestamp |-> timestamp]

StorageInit ==
    /\ storage_lock = FALSE
    /\ cleanup      = [pc |-> "idle", before |-> None, cutoff_date |-> 0,
                       analyses_to_delete |-> {}, returned |-> None]
    /\ storage_op   = [pc |-> "idle", name |-> None, id |-> None, result |-> None]

\* "async with self._lock" of a call: asyncio.Lock.acquire returns at once
\* while the lock is free and suspends the caller otherwise; the lock is
\* not reentrant, whoever holds it
LockFree == ~storage_lock

\* what the calls return: True, the stored analysis or None, whether the id
\* was stored (returned: the bool, analysis: the entity of get_analysis)
StorageResult(name, id) ==
    [returned |-> IF name = "delete_analysis" THEN id \in DOMAIN storage ELSE TRUE,
     analysis |-> IF name = "get_analysis" THEN DictGet(storage, id) ELSE None]

\* save_analysis, get_analysis and delete_analysis hold the lock over code
\* that is not suspended: with the lock free the call runs to its return,
\* otherwise the coroutine waits for the lock
StorageService_call(name, id) ==
    /\ storage_op.pc \in {"idle", "done"}
    /\ IF LockFree
       THEN /\ storage_op' =
                   [pc |-> "done", name |-> name, id |-> id,
                    result |-> StorageResult(name, id)]
            /\ storage' =
                   IF name = "save_analysis"
                   THEN save_analysis(storage, TimedEntity(id, now))
                   ELSE IF name = "delete_analysis" /\ id \in DOMAIN storage
                   THEN [k \in DOMAIN storage \ {id} |-> storage[k]]
                   ELSE storage
       ELSE /\ storage_op' = [pc |-> "waiting", name |-> name, id |-> id,
                              result |-> None]
            /\ UNCHANGED storage
    /\ UNCHANGED <<storage_lock, cleanup>>
    /\ UNCHANGED not_storage

\* the ids cleanup_old_analyses collects: timestamp < cutoff_date
AnalysesToDelete(stored, cutoff_date) ==
    {id \in DOMAIN stored : stored[id].timestamp < cutoff_date}

\* Inside "async with self._lock" cleanup_old_analyses awaits
\* self.delete_analysis for the first id, which awaits the same lock: with
\* anything to delete the coroutine waits for a lock it holds itself
CleanupWaitsForItsLock(analyses_to_delete) == analyses_to_delete # {}

\* cleanup_old_analyses from its call to its return or to the await that
\* suspends it
cleanup_old_analyses(days) ==
    /\ cleanup.pc = "idle"
    /\ LockFree
    /\ LET cutoff_date == now - days * SecondsPerDay
           analyses_to_delete == AnalysesToDelete(storage, cutoff_date)
       IN  IF CleanupWaitsForItsLock(analyses_to_delete)
           THEN /\ storage_lock' = TRUE
                /\ cleanup' = [pc |-> "delete_analysis", before |-> storage,
                               cutoff_date |-> cutoff_date,
                               analyses_to_delete |-> analyses_to_delete,
                               returned |-> None]
                /\ UNCHANGED storage
           ELSE /\ storage_lock' = FALSE
                /\ cleanup' = [pc |-> "done", before |-> storage,
                               cutoff_date |-> cutoff_date,
                               analyses_to_delete |-> analyses_to_delete,
                               returned |-> <<Cardinality(analyses_to_delete)>>]
                /\ storage' = [k \in DOMAIN storage \ analyses_to_delete |-> storage[k]]
    /\ UNCHANGED storage_op
    /\ UNCHANGED not_storage

(***************************************************************************)
(* AISecurityAnalyzer (services/ai_security_analyzer.py).                  *)
(***************************************************************************)
\* self._cache_ttl, in seconds
cache_ttl == 3600
\* self._min_interval, in seconds
min_interval == 1
\* _cache_response cleans the cache once it holds more entries than this
CACHE_CLEAN_SIZE == 100

\* calls one caller makes
MaxCalls == 3
\* advances of the clock
MaxTicks == 3

\* concurrent users of the one analyzer
Callers == {"c1", "c2"}

\* Python values whose truth value the code tests
PyDict(items) == [type |-> "dict", items |-> items]
PyStr(value)  == [type |-> "str", value |-> value]

Truthy(x) ==
    IF x = None THEN FALSE
    ELSE IF x.type = "dict" THEN x.items # {}
    ELSE x.value # ""

\* x or default
Or(x, default) == IF Truthy(x) THEN x ELSE default

\* arguments of analyze_endpoint: (endpoint, endpoint_info, context)
AIRequests ==
    {[endpoint |-> UrlGood, endpoint_info |-> None,       context |-> None],
     [endpoint |-> UrlGood, endpoint_info |-> PyDict({}), context |-> PyStr("")],
     [endpoint |-> UrlGood, endpoint_info |-> None,       context |-> PyStr("ctx")]}

\* md5 of the sorted-keys JSON dump of {endpoint, info or {}, context or ""};
\* the digest is taken to be free of collisions, so the key is the dumped data
get_cache_key(endpoint, endpoint_info, context) ==
    <<endpoint, Or(endpoint_info, PyDict({})), Or(context, PyStr(""))>>

AIKeys == {get_cache_key(r.endpoint, r.endpoint_info, r.context) : r \in AIRequests}

\* del d[key]
DictDel(d, key) == [k \in DOMAIN d \ {key} |-> d[k]]

\* texts the provider answers with, over the characters "{", "}" and "k"
TextJson    == <<"{", "}">>
TextWrapped == <<"k", "{", "}", "k">>
TextNoJson  == <<"k">>
TextBadJson == <<"{", "k", "}">>
TextClosedFirst == <<"}", "{">>
Texts == {TextJson, TextWrapped, TextNoJson, TextBadJson, TextClosedFirst}

\* str.find: 0-based index of the first occurrence, -1 if there is none
Find(s, ch) == FindFrom(s, {ch}, 1) - 1

\* str.rfind: 0-based index of the last occurrence, -1 if there is none
RFind(s, ch) ==
    LET hits == {i \in 1..Len(s) : s[i] = ch}
    IN  IF hits = {} THEN -1
        ELSE (CHOOSE i \in hits : \A k \in hits : k <= i) - 1

\* s[start:end] for 0 <= start, 0 <= end
Slice(s, start, end) == SubSeq(s, start + 1, end)

\* json.loads raises JSONDecodeError: of the texts over "{", "}" and "k"
\* only "{}" is a JSON document
JsonLoadsRaises(s) == s # <<"{", "}">>

\* _get_fallback_response
get_fallback_response(endpoint, error, t) ==
    [fallback_used   |-> TRUE,
     timestamp       |-> t,
     risk_level      |-> "unknown",
     is_secure       |-> FALSE,
     vulnerabilities |-> <<[type |-> "analysis_error", description |-> error]>>,
     analysis_method |-> "ai_fallback",
     error           |-> error,
     raw_response    |-> None,
     endpoint        |-> endpoint]

\* the result _parse_ai_response builds from the parsed document {}: every
\* parsed.get(...) yields its default
StructuredResult(endpoint, ai_response, t) ==
    [fallback_used   |-> FALSE,
     timestamp       |-> t,
     risk_level      |-> "medium",
     is_secure       |-> TRUE,
     vulnerabilities |-> <<>>,
     analysis_method |-> "ai_powered",
     error           |-> None,
     raw_response    |-> ai_response,
     endpoint        |-> endpoint]

\* _parse_ai_response: its except clauses return the fallback response
parse_ai_response(ai_response, endpoint, t) ==
    LET json_start == Find(ai_response, "{")
        json_end   == RFind(ai_response, "}") + 1
    IN  IF json_start = -1 \/ json_end = 0
        THEN get_fallback_response(endpoint,
                 "Parsing error: No JSON found in AI response", t)
        ELSE IF JsonLoadsRaises(Slice(ai_response, json_start, json_end))
        THEN get_fallback_response(endpoint, "JSON parsing error", t)
        ELSE StructuredResult(endpoint, ai_response, t)

\* a faulty variant of the definition below: an entry never expires
CacheFreshIgnoresTtl(entry, t) == TRUE
\* _get_cached_response: the entry is usable
CacheFresh(entry, t) == t - entry.timestamp < cache_ttl

\* _cache_response
cache_response(cache, cache_key, result, t) ==
    LET stored == DictSet(cache, cache_key, [result |-> result, timestamp |-> t])
    IN  IF Cardinality(DOMAIN stored) > CACHE_CLEAN_SIZE
        THEN [k \in {x \in DOMAIN stored : ~(t - stored[x].timestamp > cache_ttl)}
                 |-> stored[k]]
        ELSE stored

\* what comes back from session.post: a response with a status, a timeout
\* or a client error; a 200 body may lack the "choices" entry
Outcomes ==
    {[kind |-> "response", status |-> 200, choices |-> TRUE, text |-> t] : t \in Texts}
    \cup {[kind |-> "response", status |-> st, choices |-> FALSE, text |-> TextJson]
             : st \in {200, 402, 500}}
    \cup {[kind |-> k, status |-> 0, choices |-> FALSE, text |-> <<>>]
             : k \in {"timeout", "client_error"}}

\* a faulty variant of the definition below: the status of the response is not looked at
CallRaisesOnlyOnTransport(outcome) == outcome.kind # "response"
\* _call_openrouter_api raises instead of returning the text
CallRaises(outcome) ==
    \/ outcome.kind # "response"
    \/ outcome.status # 200
    \/ ~outcome.choices

CallError(outcome) ==
    IF outcome.kind = "timeout" THEN "OpenRouter API timeout"
    ELSE IF outcome.kind = "client_error" THEN "OpenRouter API client error"
    ELSE IF outcome.status # 200 THEN "OpenRouter API error"
    ELSE "'choices'"

\* no session.post has been issued yet
NoPost == -1

AIInit ==
    /\ now               = min_interval
    /\ ticks             = 0
    /\ response_cache    = EmptyDict
    /\ last_request_time = 0
    /\ caller            = [c \in Callers |->
                               [pc |-> "idle", n |-> 0, request |-> None,
                                key |-> None, wake |-> 0, result |-> None,
                                from_cache |-> FALSE, outcome |-> None]]
    /\ outbound          = [k \in AIKeys |-> 0]
    /\ last_post         = NoPost

\* session.post is issued for the caller's request
Post(c, started) ==
    /\ caller'   = [caller EXCEPT ![c] = [started EXCEPT !.pc = "calling"]]
    /\ outbound' = [outbound EXCEPT ![started.key] = @ + 1]
    /\ last_post' = now

\* analyze_endpoint from its start to its first suspension: a cache hit
\* returns at once; otherwise _call_openrouter_api sleeps when the last
\* request is less than min_interval old, or posts the request
AISecurityAnalyzer_analyze_endpoint(c, req) ==
    /\ caller[c].pc = "idle"
    /\ caller[c].n < MaxCalls
    /\ LET cache_key == get_cache_key(req.endpoint, req.endpoint_info, req.context)
           present   == cache_key \in DOMAIN response_cache
           hit       == present /\ CacheFresh(response_cache[cache_key], now)
           started   == [caller[c] EXCEPT !.n = @ + 1, !.request = req,
                                          !.key = cache_key, !.result = None,
                                          !.from_cache = FALSE, !.outcome = None]
           time_since_last == now - last_request_time
       IN  IF hit
           THEN /\ caller' = [caller EXCEPT ![c] =
                                 [started EXCEPT
                                     !.result = response_cache[cache_key].result,
                                     !.from_cache = TRUE]]
                /\ UNCHANGED <<response_cache, outbound, last_post>>
           ELSE /\ response_cache' = IF present
                                     THEN DictDel(response_cache, cache_key)
                                     ELSE response_cache
                /\ IF time_since_last < min_interval
                   THEN /\ caller' = [caller EXCEPT ![c] =
                                         [started EXCEPT
                                             !.pc = "sleeping",
                                             !.wake = now + (min_interval - time_since_last)]]
                        /\ UNCHANGED <<outbound, last_post>>
                   ELSE Post(c, started)
    /\ UNCHANGED <<now, ticks, last_request_time>>
    /\ UNCHANGED not_ai

\* asyncio.sleep(sleep_time) is over: the request is posted
call_openrouter_api_post(c) ==
    /\ caller[c].pc = "sleeping"
    /\ now >= caller[c].wake
    /\ Post(c, caller[c])
    /\ UNCHANGED <<now, ticks, response_cache, last_request_time>>
    /\ UNCHANGED not_ai

\* the provider's answer arrives: analyze_endpoint runs to its return
call_openrouter_api_response(c, outcome) ==
    /\ caller[c].pc = "calling"
    /\ LET endpoint == caller[c].request.endpoint
           result   == IF CallRaises(outcome)
                       THEN get_fallback_response(endpoint, CallError(outcome), now)
                       ELSE parse_ai_response(outcome.text, endpoint, now)
       IN  /\ last_request_time' =
                  IF outcome.kind = "response" /\ outcome.status = 200
                  THEN now ELSE last_request_time
           /\ response_cache' =
                  IF CallRaises(outcome) THEN response_cache
                  ELSE cache_response(response_cache, caller[c].key, result, now)
           /\ caller' = [caller EXCEPT ![c] =
                            [@ EXCEPT !.pc = "idle", !.result = result,
                                      !.outcome = outcome]]
    /\ UNCHANGED <<now, ticks, outbound, last_post>>
    /\ UNCHANGED not_ai

\* the n-th of a family of requests with pairwise distinct fingerprints:
\* the same endpoint with endpoint_info {"id": n}
FingerprintRequest(n) ==
    [endpoint |-> UrlGood, endpoint_info |-> PyDict({n}), context |-> None]

\* One analyze_endpoint call of a caller that is alone with the analyzer,
\* from its start to its return: no other coroutine runs while it sleeps
\* or waits for the provider, and the clock advances by the time it sleeps.
analyze_endpoint_alone(c, req, outcome) ==
    /\ \A k \in Callers : caller[k].pc = "idle"
    /\ LET cache_key == get_cache_key(req.endpoint, req.endpoint_info, req.context)
           present   == cache_key \in DOMAIN response_cache
           hit       == present /\ CacheFresh(response_cache[cache_key], now)
           looked_up == IF present /\ ~hit
                        THEN DictDel(response_cache, cache_key)
                        ELSE response_cache
           time_since_last == now - last_request_time
           posted    == IF time_since_last < min_interval
                        THEN now + (min_interval - time_since_last)
                        ELSE now
           result    == IF CallRaises(outcome)
                        THEN get_fallback_response(req.endpoint, CallError(outcome), posted)
                        ELSE parse_ai_response(outcome.text, req.endpoint, posted)
           returned  == [caller[c] EXCEPT !.request = req, !.key = cache_key,
                                          !.outcome = None, !.wake = 0]
       IN  IF hit
           THEN /\ caller' = [caller EXCEPT ![c] =
                                 [returned EXCEPT
                                     !.result = response_cache[cache_key].result,
                                     !.from_cache = TRUE]]
                /\ UNCHANGED <<now, response_cache, last_request_time, outbound,
                               last_post>>
           ELSE /\ now' = posted
                /\ last_post' = posted
                /\ outbound' = DictSet(outbound, cache_key,
                                       IF cache_key \in DOMAIN outbound
                                       THEN outbound[cache_key] + 1 ELSE 1)
                /\ last_request_time' =
                       IF outcome.kind = "response" /\ outcome.status = 200
                       THEN posted ELSE last_request_time
                /\ response_cache' =
                       IF CallRaises(outcome) THEN looked_up
                       ELSE cache_response(looked_up, cache_key, result, posted)
                /\ caller' = [caller EXCEPT ![c] =
                                 [returned EXCEPT !.result = result,
                                                  !.from_cache = FALSE,
                                                  !.outcome = outcome]]
    /\ UNCHANGED ticks
    /\ UNCHANGED not_ai

\* time passes
Tick(d) ==
    /\ ticks < MaxTicks
    /\ now'   = now + d
    /\ ticks' = ticks + 1
    /\ UNCHANGED <<response_cache, last_request_time, caller, outbound, last_post>>
    /\ UNCHANGED not_ai

TickSteps == {min_interval, cache_ttl - 1}

(***************************************************************************)
(* OpenAPIParser (services/openapi_parser.py).                             *)
(***************************************************************************)
\* str.lower and str.upper
UpperChars == <<"A", "B", "C", "D", "E", "F", "G", "H", "I", "J", "K", "L", "M",
                "N", "O", "P", "Q", "R", "S", "T", "U", "V", "W", "X", "Y", "Z">>
LowerChars == <<"a", "b", "c", "d", "e", "f", "g", "h", "i", "j", "k", "l", "m",
                "n", "o", "p", "q", "r", "s", "t", "u", "v", "w", "x", "y", "z">>

Lower(s) ==
    [i \in 1..Len(s) |->
        IF \E k \in 1..Len(UpperChars) : UpperChars[k] = s[i]
        THEN LowerChars[CHOOSE k \in 1..Len(UpperChars) : UpperChars[k] = s[i]]
        ELSE s[i]]

Upper(s) ==
    [i \in 1..Len(s) |->
        IF \E k \in 1..Len(LowerChars) : LowerChars[k] = s[i]
        THEN UpperChars[CHOOSE k \in 1..Len(LowerChars) : LowerChars[k] = s[i]]
        ELSE s[i]]

\* sub in s
Contains(s, sub) ==
    \E i \in 1..(Len(s) - Len(sub) + 1) : SubSeq(s, i, i + Len(sub) - 1) = sub

\* methods _parse_paths accepts, and the ones the statistics and the issue
\* detection look at
ParsedMethods ==
    {<<"g","e","t">>, <<"p","o","s","t">>, <<"p","u","t">>,
     <<"d","e","l","e","t","e">>, <<"p","a","t","c","h">>,
     <<"o","p","t","i","o","n","s">>, <<"h","e","a","d">>,
     <<"t","r","a","c","e">>}
CountedMethods ==
    {<<"g","e","t">>, <<"p","o","s","t">>, <<"p","u","t">>,
     <<"d","e","l","e","t","e">>, <<"p","a","t","c","h">>}

AdminWords == {<<"a","d","m","i","n">>, <<"m","a","n","a","g","e","m","e","n","t">>,
               <<"c","o","n","f","i","g">>}
UserWords  == {<<"u","s","e","r">>, <<"p","r","o","f","i","l","e">>,
               <<"a","c","c","o","u","n","t">>}

\* The documents a specification URL serves.  A document is a JSON object
\* (top = "dict") or a JSON array; "openapi" is absent (None), a string or a
\* number; "paths" lists the (path, method, operation) entries in document
\* order, an operation being an object or, where None, something else.
\* Of an operation's "parameters" the model keeps how many are optional
\* query parameters and what the value is: a list of objects ("list"), a
\* number ("int") or a list holding a string ("list_of_str"); of its
\* "responses" whether it is an object of objects ("dict"), an array
\* ("list") or an object holding a string ("dict_of_str").  The operations
\* carry no "requestBody".  item_dict tells whether the path item the entry
\* comes from is an object; one that is not shows as one entry without
\* method or operation.  "security" is the document's global requirement
\* (TRUE: a non-empty list).
VersionStr(value) == [type |-> "str", value |-> value]
VersionFloat      == [type |-> "float", value |-> <<>>]
Versions == {None, VersionStr(<<"3", ".", "0", ".", "0">>),
             VersionStr(<<"2", ".", "0">>), VersionFloat}

OperationWithParameters(security, summary, optional_query) ==
    [security |-> security, summary |-> summary, optional_query |-> optional_query,
     parameters |-> "list", responses |-> "dict"]
Operation(security, summary) == OperationWithParameters(security, summary, 0)

PathUsers == <<"/", "u", "s", "e", "r", "s">>
PathAdmin == <<"/", "A", "d", "m", "i", "n">>
PathFind  == <<"/", "f", "i", "n", "d">>

GetUsers   == [path |-> PathUsers, item_dict |-> TRUE, method |-> <<"g","e","t">>,
               operation |-> Operation(FALSE, FALSE)]
PostAdmin  == [path |-> PathAdmin, item_dict |-> TRUE, method |-> <<"P","O","S","T">>,
               operation |-> Operation(TRUE, TRUE)]
PutNonDict == [path |-> PathUsers, item_dict |-> TRUE, method |-> <<"p","u","t">>,
               operation |-> None]
GetFind    == [path |-> PathFind, item_dict |-> TRUE, method |-> <<"g","e","t">>,
               operation |-> OperationWithParameters(TRUE, TRUE, MaxOptionalParameters)]

\* "/Admin": "x", a path item that is a string
AdminNonDict == [path |-> PathAdmin, item_dict |-> FALSE, method |-> None,
                 operation |-> None]
\* operations with "parameters": 5, "parameters": ["x"], "responses": [] and
\* "responses": {"200": "x"}
MalformedOperation(parameters, responses) ==
    [Operation(TRUE, TRUE) EXCEPT !.parameters = parameters, !.responses = responses]
PostFind(parameters, responses) ==
    [path |-> PathFind, item_dict |-> TRUE, method |-> <<"p","o","s","t">>,
     operation |-> MalformedOperation(parameters, responses)]

\* the same path item has a "get" and a "GET" key
GETUsers   == [path |-> PathUsers, item_dict |-> TRUE, method |-> <<"G","E","T">>,
               operation |-> Operation(TRUE, FALSE)]

PathLists == {<<>>, <<GetUsers>>, <<GetUsers, PostAdmin>>, <<PutNonDict>>,
              <<GetFind>>, <<GetUsers, GetFind>>, <<GetUsers, GETUsers>>,
              <<GetUsers, AdminNonDict>>,
              <<GetUsers, PostFind("int", "dict")>>,
              <<GetUsers, PostFind("list_of_str", "dict")>>,
              <<GetUsers, PostFind("list", "list")>>,
              <<GetUsers, PostFind("list", "dict_of_str")>>}

Documents ==
    {[top |-> "dict", openapi |-> v, securitySchemes |-> sch, security |-> g,
      has_paths |-> TRUE, paths |-> ps]
        : v \in Versions, sch \in BOOLEAN, g \in BOOLEAN, ps \in PathLists}
    \cup {[top |-> "dict", openapi |-> v, securitySchemes |-> sch,
           security |-> FALSE, has_paths |-> FALSE, paths |-> <<>>]
             : v \in Versions, sch \in BOOLEAN}
    \cup {[top |-> "list", openapi |-> None, securitySchemes |-> FALSE,
           security |-> FALSE, has_paths |-> FALSE, paths |-> <<>>]}

\* spec.get('paths', {})
SpecPaths(spec) == IF spec.has_paths THEN spec.paths ELSE <<>>

\* _validate_spec: re.match raises TypeError on a version that is no string;
\* its findings are logged only
validate_spec_raises(spec) ==
    /\ spec.top = "dict"
    /\ spec.openapi # None
    /\ spec.openapi.type # "str"

\* _parse_paths
parse_paths(paths) ==
    LET accepted(e) == /\ e.item_dict
                       /\ Lower(e.method) \in ParsedMethods
                       /\ e.operation # None
        kept == SelectSeq(paths, accepted)
    IN  [i \in 1..Len(kept) |->
            [path     |-> kept[i].path,
             method   |-> Upper(kept[i].method),
             summary  |-> kept[i].operation.summary,
             security |-> kept[i].operation.security]]

\* _calculate_statistics: total_endpoints and method_counts[method.upper()]
\* count the method keys, whatever the operation is
calculate_statistics(spec) ==
    LET paths == SpecPaths(spec)
        counted(e) == e.item_dict /\ Lower(e.method) \in CountedMethods
        keys == SelectSeq(paths, counted)
        method_count(name) ==
            Cardinality({k \in 1..Len(keys) : Upper(keys[k].method) = name})
    IN  [total_endpoints  |-> Len(keys),
         get_endpoints    |-> method_count(<<"G","E","T">>),
         post_endpoints   |-> method_count(<<"P","O","S","T">>),
         put_endpoints    |-> method_count(<<"P","U","T">>),
         delete_endpoints |-> method_count(<<"D","E","L","E","T","E">>),
         patch_endpoints  |-> method_count(<<"P","A","T","C","H">>)]

\* the optional query parameters of a list of operations
RECURSIVE OptionalParameters(_)
OptionalParameters(ops) ==
    IF ops = <<>> THEN 0
    ELSE (IF Head(ops).operation.parameters = "int"
          THEN 0 ELSE Head(ops).operation.optional_query)
         + OptionalParameters(Tail(ops))

\* _detect_potential_issues: the number of findings per category
detect_potential_issues(spec) ==
    LET looked_at(e) == /\ e.item_dict
                        /\ Lower(e.method) \in CountedMethods
                        /\ e.operation # None
        ops == SelectSeq(SpecPaths(spec), looked_at)
        admin(e) == /\ \E w \in AdminWords : Contains(Lower(e.path), w)
                    /\ ~e.operation.security
        user(e)  == /\ \E w \in UserWords : Contains(Lower(e.path), w)
                    /\ ~e.operation.security
    IN  [authentication |-> (IF spec.securitySchemes THEN 0 ELSE 1)
                               + Len(SelectSeq(ops, user)),
         authorization  |-> Len(SelectSeq(ops, admin)),
         data_exposure  |-> 0,
         rate_limiting  |-> 0,
         input_validation |-> OptionalParameters(ops)]

\* a faulty variant of the definition below: "paths" is read with spec['paths']
ParseRaisesWithoutPaths(spec) ==
    \/ spec.top # "dict"
    \/ validate_spec_raises(spec)
    \/ ~spec.has_paths
\* _parse_parameters iterates the value and calls .get on every element;
\* _parse_responses calls .items on the value and .get on every response
ParseOperationRaises(operation) ==
    \/ operation.parameters # "list"
    \/ operation.responses # "dict"

\* _parse_paths raises when an operation it accepts does
ParsePathsRaises(paths) ==
    \E k \in 1..Len(paths) :
        /\ paths[k].item_dict
        /\ Lower(paths[k].method) \in ParsedMethods
        /\ paths[k].operation # None
        /\ ParseOperationRaises(paths[k].operation)

\* an exception inside the try of parse_specification: "in" and .get on a
\* document that is no dict, re.match on a version that is no string, a
\* malformed "parameters" or "responses" value in _parse_paths
ParseRaises(spec) ==
    \/ spec.top # "dict"
    \/ validate_spec_raises(spec)
    \/ ParsePathsRaises(SpecPaths(spec))

\* parse_specification: any exception inside becomes an error result
parse_specification(spec) ==
    IF ParseRaises(spec)
    THEN [error |-> TRUE, original |-> spec]
    ELSE [error            |-> FALSE,
          original         |-> spec,
          paths            |-> parse_paths(SpecPaths(spec)),
          security         |-> [schemes |-> spec.securitySchemes,
                                global_requirements |-> spec.security],
          statistics       |-> calculate_statistics(spec),
          potential_issues |-> detect_potential_issues(spec)]

\* The exceptions requests.get, raise_for_status and the decoding of the body
\* raise, each with the classes it is an instance of (ConnectTimeout is both
\* a ConnectionError and a Timeout; the JSONDecodeError of requests is also
\* the one of json; MissingSchema is what a URL without scheme raises).
LoadExceptions ==
    {"ReadTimeout", "ConnectTimeout", "ConnectionError", "HTTPError",
     "JSONDecodeError", "YAMLError", "MissingSchema"}

ExceptionClasses(exception) ==
    CASE exception = "ReadTimeout"     -> {"Timeout", "RequestException", "Exception"}
      [] exception = "ConnectTimeout"  -> {"ConnectionError", "Timeout",
                                           "RequestException", "Exception"}
      [] exception = "ConnectionError" -> {"ConnectionError", "RequestException",
                                           "Exception"}
      [] exception = "HTTPError"       -> {"HTTPError", "RequestException", "Exception"}
      [] exception = "JSONDecodeError" -> {"JSONDecodeError", "InvalidJSONError",
                                           "RequestException", "ValueError",
                                           "Exception"}
      [] exception = "YAMLError"       -> {"YAMLError", "Exception"}
      [] exception = "MissingSchema"   -> {"RequestException", "ValueError",
                                           "Exception"}

\* the except clauses of parse_from_url, in order, with the entry each one
\* appends to the error list
ExceptClauses ==
    << [class |-> "Timeout",         entry |-> "timeout while loading the specification"],
       [class |-> "ConnectionError", entry |-> "connection error"],
       [class |-> "HTTPError",       entry |-> "HTTP error: status code"],
       [class |-> "JSONDecodeError", entry |-> "invalid JSON in the specification"],
       [class |-> "YAMLError",       entry |-> "invalid YAML in the specification"],
       [class |-> "Exception",       entry |-> "unexpected error"] >>

\* a faulty variant of the definition below: the closing "except Exception" clause is missing
ClausesWithoutCatchAll(exception) ==
    {k \in 1..(Len(ExceptClauses) - 1) :
        ExceptClauses[k].class \in ExceptionClasses(exception)}
\* the clauses an exception matches
MatchingClauses(exception) ==
    {k \in 1..Len(ExceptClauses) :
        ExceptClauses[k].class \in ExceptionClasses(exception)}

\* what requests.get and the decoding of the body come to
Fetches ==
    {[ok |-> TRUE, error |-> "", document |-> d] : d \in Documents}
    \cup {[ok |-> FALSE, error |-> e, document |-> None] : e \in LoadExceptions}

\* parse_from_url: (spec, errors); the empty dict where loading failed; an
\* exception no clause matches leaves the method
parse_from_url(fetch) ==
    IF fetch.ok
    THEN [raised |-> FALSE, spec |-> parse_specification(fetch.document),
          errors |-> <<>>]
    ELSE LET matching == MatchingClauses(fetch.error)
         IN  IF matching = {}
             THEN [raised |-> TRUE, spec |-> None, errors |-> <<>>]
             ELSE LET first == CHOOSE k \in matching : \A m \in matching : k <= m
                  IN  [raised |-> FALSE, spec |-> None,
                       errors |-> <<ExceptClauses[first].entry>>]

\* extract_endpoints_summary
extract_endpoints_summary(paths_is_dict, paths) ==
    LET counted(e) == /\ e.item_dict
                      /\ Lower(e.method) \in CountedMethods
                      /\ e.operation # None
        secured(e)   == counted(e) /\ e.operation.security
        unsecured(e) == counted(e) /\ ~e.operation.security
    IN  IF paths_is_dict
        THEN [total_count         |-> Len(SelectSeq(paths, counted)),
              secured_endpoints   |-> Len(SelectSeq(paths, secured)),
              unsecured_endpoints |-> Len(SelectSeq(paths, unsecured))]
        ELSE [total_count |-> 0, secured_endpoints |-> 0, unsecured_endpoints |-> 0]

(***************************************************************************)
(* OpenRouterClient and OpenAPIAnalysisService                             *)
(* (services/openapi_analysis_service.py).                                 *)
(***************************************************************************)
\* what client.post comes to: a response with a status (a 200 body may lack
\* the "choices" entry) or an exception of the transport
SwaggerAIOutcomes ==
    {[kind |-> "response", status |-> st, choices |-> ch]
        : st \in {200, 402, 500}, ch \in BOOLEAN}
    \cup {[kind |-> "exception", status |-> 0, choices |-> FALSE]}

\* OpenRouterClient.analyze_api_security
analyze_api_security(outcome) ==
    IF outcome.kind = "response" /\ outcome.status = 200 /\ outcome.choices
    THEN [success |-> TRUE, error |-> "", fallback_used |-> FALSE]
    ELSE IF outcome.kind = "response" /\ outcome.status = 402
    THEN [success |-> FALSE, error |-> "Insufficient credits", fallback_used |-> TRUE]
    ELSE IF outcome.kind = "response" /\ outcome.status # 200
    THEN [success |-> FALSE, error |-> "API error", fallback_used |-> FALSE]
    ELSE [success |-> FALSE, error |-> "Request failed", fallback_used |-> FALSE]

\* _assess_security_structure
assess_security_structure(spec) ==
    LET protected(e)   == e.security
        unprotected(e) == ~e.security
        endpoint_keys(endpoints) ==
            [k \in 1..Len(endpoints) |-> <<endpoints[k].method, endpoints[k].path>>]
        n_protected    == Len(SelectSeq(spec.paths, protected))
        n_unprotected  == Len(SelectSeq(spec.paths, unprotected))
    IN  [has_authentication      |-> spec.security.schemes,
         global_security_defined |-> spec.security.global_requirements,
         protected_endpoints     |-> endpoint_keys(SelectSeq(spec.paths, protected)),
         unprotected_endpoints   |-> endpoint_keys(SelectSeq(spec.paths, unprotected)),
         security_recommendations |->
             (IF spec.security.schemes THEN <<>> ELSE <<"add authentication schemes">>)
             \o (IF n_unprotected > n_protected
                 THEN <<"most endpoints are unprotected">> ELSE <<>>)]

\* _validate_specification_structure: the documents of the model all have
\* "info" and "paths"
validate_specification_structure(spec) ==
    LET version      == spec.original.openapi
        undocumented(e) == ~e.summary
    IN  [is_valid |-> version # None,
         errors   |-> IF version = None THEN 1 ELSE 0,
         warnings |-> (IF version # None /\ ~StartsWith(version.value, <<"3", ".">>)
                       THEN 1 ELSE 0)
                      + (IF Len(SelectSeq(spec.paths, undocumented)) > 0
                         THEN 1 ELSE 0)]

\* _perform_structure_analysis: extract_endpoints_summary is handed the
\* parsed specification, whose "paths" is the list made by _parse_paths
perform_structure_analysis(spec) ==
    [summary             |-> extract_endpoints_summary(FALSE, spec.paths),
     security_assessment |-> assess_security_structure(spec),
     validation_check    |-> validate_specification_structure(spec),
     statistics          |-> spec.statistics]

\* a faulty variant of the definition below: the success flag of the AI result is not looked at
AiAvailableWheneverCalled(ai_analysis) == ai_analysis # None
\* ai_analysis is not None and ai_analysis.get('success', False)
AiAvailable(ai_analysis) ==
    IF ai_analysis = None THEN FALSE ELSE ai_analysis.success

\* a faulty variant of the definition below: the score is not floored at 0
SecurityScoreWithoutFloor(total_issues) == 100 - (total_issues * 5)
\* the security score of _generate_summary
SecurityScore(total_issues) ==
    LET lowered == 100 - (total_issues * 5)
    IN  IF total_issues = 0 THEN 100
        ELSE IF lowered > 0 THEN lowered ELSE 0

\* _generate_summary: every potential issue is counted as medium
generate_summary(spec, structure_analysis, ai_analysis) ==
    LET issues == spec.potential_issues
        medium_issues == issues.authentication + issues.authorization
                            + issues.data_exposure + issues.rate_limiting
                            + issues.input_validation
    IN  [total_endpoints |-> structure_analysis.statistics.total_endpoints,
         critical_issues |-> 0,
         high_issues     |-> 0,
         medium_issues   |-> medium_issues,
         low_issues      |-> 0,
         security_score  |-> SecurityScore(0 + 0 + medium_issues + 0),
         ai_analysis_available |-> AiAvailable(ai_analysis)]

\* _generate_recommendations: the categories, in order
generate_recommendations(structure_analysis, ai_analysis) ==
    [i \in 1..Len(structure_analysis.security_assessment.security_recommendations)
        |-> "Security"]
    \o (IF ai_analysis # None /\ ai_analysis.success
        THEN <<"AI Analysis">> ELSE <<"Configuration">>)

\* _generate_final_report
generate_final_report(spec, structure_analysis, ai_analysis) ==
    [success            |-> TRUE,
     error              |-> "",
     structure_analysis |-> structure_analysis,
     parser_errors      |-> None,
     ai_analysis        |-> ai_analysis,
     summary            |-> generate_summary(spec, structure_analysis, ai_analysis),
     recommendations    |-> generate_recommendations(structure_analysis, ai_analysis)]

\* the report for a specification that did not load or parse; the keys a
\* report lacks are None
FailureReport(parser_errors) ==
    [success |-> FALSE, error |-> "could not load or parse the specification",
     parser_errors |-> parser_errors,
     structure_analysis |-> None, ai_analysis |-> None, summary |-> None,
     recommendations |-> <<>>]

\* the report of the closing except clause of analyze_swagger_url
CriticalReport ==
    [success |-> FALSE, error |-> "critical error",
     parser_errors |-> None,
     structure_analysis |-> None, ai_analysis |-> None, summary |-> None,
     recommendations |-> <<>>]

SwaggerInit ==
    /\ swagger_service = None
    /\ swagger_call    = [pc |-> "idle", fetch |-> None, spec |-> None,
                          structure_analysis |-> None, ai_outcome |-> None,
                          report |-> None]

\* OpenAPIAnalysisService.__init__: the client exists only with an API key
OpenAPIAnalysisService_init(api_key_set) ==
    /\ swagger_service = None
    /\ swagger_service' = [openrouter_client |-> api_key_set]
    /\ UNCHANGED swagger_call
    /\ UNCHANGED not_swagger

\* analyze_swagger_url up to its first suspension: the blocking load, the
\* parsing and the structure analysis; then the AI call is awaited, or,
\* without a client, the report is returned
analyze_swagger_url(fetch) ==
    /\ swagger_service # None
    /\ swagger_call.pc \in {"idle", "done"}
    /\ LET parsed == parse_from_url(fetch)
           spec   == parsed.spec
           failed == IF spec = None THEN TRUE ELSE spec.error
           structure_analysis == perform_structure_analysis(spec)
       IN  swagger_call' =
               IF parsed.raised
               THEN [pc |-> "done", fetch |-> fetch, spec |-> None,
                     structure_analysis |-> None, ai_outcome |-> None,
                     report |-> CriticalReport]
               ELSE IF failed
               THEN [pc |-> "done", fetch |-> fetch, spec |-> spec,
                     structure_analysis |-> None, ai_outcome |-> None,
                     report |-> FailureReport(
                         IF parsed.errors # <<>> THEN parsed.errors
                         ELSE <<"error of the parsed specification">>)]
               ELSE IF swagger_service.openrouter_client
               THEN [pc |-> "ai_call", fetch |-> fetch, spec |-> spec,
                     structure_analysis |-> structure_analysis,
                     ai_outcome |-> None, report |-> None]
               ELSE [pc |-> "done", fetch |-> fetch, spec |-> spec,
                     structure_analysis |-> structure_analysis,
                     ai_outcome |-> None,
                     report |-> generate_final_report(spec, structure_analysis, None)]
    /\ UNCHANGED swagger_service
    /\ UNCHANGED not_swagger

\* the AI call is over: the final report is built and returned
analyze_swagger_url_ai_done(outcome) ==
    /\ swagger_call.pc = "ai_call"
    /\ swagger_call' =
           [swagger_call EXCEPT
               !.pc = "done",
               !.ai_outcome = outcome,
               !.report = generate_final_report(swagger_call.spec,
                              swagger_call.structure_analysis,
                              analyze_api_security(outcome))]
    /\ UNCHANGED swagger_service
    /\ UNCHANGED not_swagger

(***************************************************************************)
(* SecurityAnalyzer (services/security_analyzer.py).                       *)
(***************************************************************************)
\* the characters of a scheme after its first letter, and those matching \w
\* in a lower-cased text
Digits      == {"0", "1", "2", "3", "4", "5", "6", "7", "8", "9"}
Letters     == {LowerChars[k] : k \in 1..Len(LowerChars)}
                  \cup {UpperChars[k] : k \in 1..Len(UpperChars)}
SchemeChars == Letters \cup Digits \cup {"+", "-", "."}
WordChars   == Letters \cup Digits \cup {"_"}
Whitespace  == {" "}

\* urllib.parse.urlparse on URLs without ";" parameters, control characters
\* and percent escapes: the scheme is lower-cased, the rest is kept
urlparse(url) ==
    LET colon == FindFrom(url, {":"}, 1)
        has_scheme == /\ colon > 1
                      /\ url[1] \in Letters
                      /\ \A k \in 1..(colon - 1) : url[k] \in SchemeChars
        scheme == IF has_scheme THEN Lower(SubSeq(url, 1, colon - 1)) ELSE <<>>
        rest   == IF has_scheme THEN SubSeq(url, colon + 1, Len(url)) ELSE url
        has_netloc == StartsWith(rest, <<"/", "/">>)
        stop   == FindFrom(rest, {"/", "?", "#"}, 3)
        netloc == IF has_netloc
                  THEN SubSeq(rest, 3, IF stop = 0 THEN Len(rest) ELSE stop - 1)
                  ELSE <<>>
        after  == IF ~has_netloc THEN rest
                  ELSE IF stop = 0 THEN <<>>
                  ELSE SubSeq(rest, stop, Len(rest))
        hash   == FindFrom(after, {"#"}, 1)
        before_fragment == IF hash = 0 THEN after ELSE SubSeq(after, 1, hash - 1)
        mark   == FindFrom(before_fragment, {"?"}, 1)
    IN  [scheme   |-> scheme,
         netloc   |-> netloc,
         path     |-> IF mark = 0 THEN before_fragment
                      ELSE SubSeq(before_fragment, 1, mark - 1),
         query    |-> IF mark = 0 THEN <<>>
                      ELSE SubSeq(before_fragment, mark + 1, Len(before_fragment)),
         fragment |-> IF hash = 0 THEN <<>> ELSE SubSeq(after, hash + 1, Len(after))]

\* urllib.parse.parse_qsl: the values of the "name=value" fields of the
\* query; a field without "=" or with an empty value is dropped
parse_qsl_values(query) ==
    LET starts == {1} \cup {i + 1 : i \in {k \in 1..Len(query) : query[k] = "&"}}
        field(from) == LET amp == FindFrom(query, {"&"}, from)
                       IN  SubSeq(query, from, IF amp = 0 THEN Len(query) ELSE amp - 1)
        value(f)    == LET eq == FindFrom(f, {"="}, 1)
                       IN  IF eq = 0 THEN <<>> ELSE SubSeq(f, eq + 1, Len(f))
    IN  {value(field(from)) : from \in starts} \ {<<>>}

\* self.security_patterns and the pattern lists of the check methods that
\* are plain strings
admin_paths == {<<"/","a","d","m","i","n">>,
                    <<"/","a","d","m","i","n","i","s","t","r","a","t","o","r">>,
                    <<"/","m","a","n","a","g","e">>,
                    <<"/","m","a","n","a","g","e","m","e","n","t">>,
                <<"/","d","a","s","h","b","o","a","r","d">>,
                    <<"/","c","o","n","t","r","o","l">>,
                    <<"/","b","a","c","k","e","n","d">>,
                    <<"/","c","o","n","s","o","l","e">>}
debug_paths == {<<"/","d","e","b","u","g","/">>,
                    <<"/","t","e","s","t","/">>,
                    <<"/","d","e","v","/">>,
                    <<"/","d","e","v","e","l","o","p","m","e","n","t","/">>,
                <<"/","s","t","a","t","u","s">>,
                    <<"/","i","n","f","o">>,
                    <<"/","h","e","a","l","t","h","/","d","e","t","a","i","l","e","d">>,
                    <<"/","m","e","t","r","i","c","s">>}
auth_patterns == {<<"/","l","o","g","i","n">>,
                    <<"/","a","u","t","h">>,
                    <<"/","t","o","k","e","n">>,
                    <<"/","s","i","g","n","i","n">>,
                    <<"/","o","a","u","t","h">>,
                  <<"/","a","p","i","/","a","u","t","h">>,
                    <<"/","a","p","i","/","l","o","g","i","n">>,
                    <<"/","a","p","i","/","t","o","k","e","n">>}
version_patterns == {<<"/","v","1">>,
                    <<"/","v","2">>,
                    <<"/","v","3">>,
                    <<"/","a","p","i","/","v","1">>,
                    <<"/","a","p","i","/","v","2">>}
admin_keywords == {<<"a","d","m","i","n">>,
                    <<"a","d","m","i","n","i","s","t","r","a","t","o","r">>,
                    <<"r","o","o","t">>,
                    <<"m","a","n","a","g","e">>,
                    <<"d","a","s","h","b","o","a","r","d">>}
sensitive_keywords == {<<"c","o","n","f","i","g">>,
                    <<"s","e","t","t","i","n","g","s">>,
                    <<"d","e","b","u","g">>,
                    <<"i","n","f","o">>,
                    <<"i","n","t","e","r","n","a","l">>,
                    <<"a","d","m","i","n">>}
disclosure_keywords == {<<"s","e","c","r","e","t">>,
                    <<"k","e","y">>,
                    <<"p","a","s","s","w","o","r","d">>,
                    <<"t","o","k","e","n">>,
                    <<"c","r","e","d","e","n","t","i","a","l">>}
financial_patterns == {<<"/","p","a","y","m","e","n","t">>,
                    <<"/","c","a","r","d">>,
                    <<"/","f","i","n","a","n","c","i","a","l">>,
                    <<"/","b","i","l","l","i","n","g">>,
                    <<"/","c","r","e","d","i","t">>}
user_data_patterns == {<<"/","u","s","e","r">>,
                    <<"/","p","r","o","f","i","l","e">>,
                    <<"/","p","e","r","s","o","n","a","l">>,
                    <<"/","a","c","c","o","u","n","t">>}

\* any(re.search(pattern, text, re.IGNORECASE) ...) for plain patterns, and
\* any(keyword in text ...), on a lower-cased text
AnyIn(patterns, text) == \E p \in patterns : Contains(text, p)

At(text, i, word) ==
    /\ i >= 1
    /\ i + Len(word) - 1 <= Len(text)
    /\ SubSeq(text, i, i + Len(word) - 1) = word

\* re.search of  a\s+b
SearchSpaced(text, a, b) ==
    \E i \in 1..Len(text), j \in 1..Len(text) :
        /\ At(text, i, a)
        /\ At(text, j, b)
        /\ j > i + Len(a)
        /\ \A k \in (i + Len(a))..(j - 1) : text[k] \in Whitespace

\* re.search of  a\s+.*\s+b
SearchSpacedAround(text, a, b) ==
    \E i \in 1..Len(text), j \in 1..Len(text) :
        /\ At(text, i, a)
        /\ At(text, j, b)
        /\ j - 1 > i + Len(a)
        /\ text[i + Len(a)] \in Whitespace
        /\ text[j - 1] \in Whitespace

\* re.search of  on\w+\s*=
SearchEventHandler(text) ==
    \E i \in 1..Len(text), k \in 1..Len(text), m \in 1..Len(text) :
        /\ At(text, i, <<"o","n">>)
        /\ k >= i + 2
        /\ \A w \in (i + 2)..k : text[w] \in WordChars
        /\ m > k
        /\ \A w \in (k + 1)..(m - 1) : text[w] \in Whitespace
        /\ text[m] = "="

SecurityCheck(name, passed, severity) ==
    [name |-> name, passed |-> passed, severity |-> severity]

\* _check_protocol
check_protocol(parsed_url) ==
    LET is_https == parsed_url.scheme = <<"h","t","t","p","s">>
    IN  <<SecurityCheck("https_protocol", is_https,
                        IF ~is_https THEN "critical" ELSE "info")>>

\* _check_admin_exposure
check_admin_exposure(parsed_url) ==
    LET path_lower     == Lower(parsed_url.path)
        admin_exposed  == AnyIn(admin_paths, path_lower)
        admin_in_query == \E value \in parse_qsl_values(parsed_url.query) :
                              AnyIn(admin_keywords, Lower(value))
    IN  <<SecurityCheck("admin_endpoint_exposure",
                        ~admin_exposed /\ ~admin_in_query,
                        IF admin_exposed THEN "high" ELSE "info")>>

\* _check_debug_exposure
check_debug_exposure(parsed_url) ==
    LET debug_exposed == AnyIn(debug_paths, Lower(parsed_url.path))
    IN  <<SecurityCheck("debug_endpoint_exposure", ~debug_exposed,
                        IF debug_exposed THEN "critical" ELSE "info")>>

\* _check_authentication
check_authentication(parsed_url) ==
    LET auth_detected == AnyIn(auth_patterns, Lower(parsed_url.path))
    IN  <<SecurityCheck("authentication_endpoint", auth_detected,
                        IF auth_detected THEN "medium" ELSE "info")>>

\* _check_api_versioning
check_api_versioning(parsed_url) ==
    LET version_detected == AnyIn(version_patterns, Lower(parsed_url.path))
    IN  <<SecurityCheck("api_versioning", version_detected,
                        IF ~version_detected THEN "medium" ELSE "info")>>

\* _check_security_headers, _check_cors_policy, _check_rate_limiting
check_security_headers(parsed_url) ==
    <<SecurityCheck("security_headers", FALSE, "medium")>>
check_cors_policy(parsed_url) ==
    <<SecurityCheck("cors_policy", FALSE, "medium")>>
check_rate_limiting(parsed_url) ==
    <<SecurityCheck("rate_limiting", FALSE, "medium")>>

\* _check_injection_vulnerabilities
check_injection_vulnerabilities(parsed_url) ==
    LET text == Lower(parsed_url.path) \o <<" ">> \o Lower(parsed_url.query)
        sql_injection_detected ==
            \/ SearchSpacedAround(text, <<"s","e","l","e","c","t">>,
                    <<"f","r","o","m">>)
            \/ SearchSpaced(text, <<"d","r","o","p">>,
                    <<"t","a","b","l","e">>)
            \/ SearchSpaced(text, <<"d","e","l","e","t","e">>,
                    <<"f","r","o","m">>)
            \/ SearchSpaced(text, <<"i","n","s","e","r","t">>,
                    <<"i","n","t","o">>)
        xss_detected ==
            \/ Contains(text, <<"<","s","c","r","i","p","t",">">>)
            \/ Contains(text, <<"j","a","v","a","s","c","r","i","p","t",":">>)
            \/ SearchEventHandler(text)
        path_traversal_detected == Contains(text, <<".",".","/">>)
        injection_vulnerabilities ==
            sql_injection_detected \/ xss_detected \/ path_traversal_detected
    IN  <<SecurityCheck("injection_vulnerabilities", ~injection_vulnerabilities,
                        IF injection_vulnerabilities THEN "critical" ELSE "info")>>

\* _check_information_disclosure
check_information_disclosure(parsed_url) ==
    LET path_lower == Lower(parsed_url.path)
        sensitive_endpoint == AnyIn(sensitive_keywords, path_lower)
        disclosure_risk    == AnyIn(disclosure_keywords, path_lower)
    IN  <<SecurityCheck("information_disclosure",
                        ~(sensitive_endpoint \/ disclosure_risk),
                        IF sensitive_endpoint \/ disclosure_risk
                        THEN "high" ELSE "info")>>

\* _check_sensitive_data_exposure
check_sensitive_data_exposure(parsed_url) ==
    LET path_lower == Lower(parsed_url.path)
        financial_endpoint == AnyIn(financial_patterns, path_lower)
        user_data_endpoint == AnyIn(user_data_patterns, path_lower)
    IN  <<SecurityCheck("sensitive_data_exposure",
                        ~(financial_endpoint \/ user_data_endpoint),
                        IF financial_endpoint \/ user_data_endpoint
                        THEN "high" ELSE "info")>>

\* a faulty variant of the definition below: failing checks of severity high count as well
IsSecureCountsHigh(security_checks) ==
    ~\E k \in 1..Len(security_checks) :
        /\ ~security_checks[k].passed
        /\ security_checks[k].severity \in {"critical", "high"}
\* is_secure: no failing check of severity critical
IsSecure(security_checks) ==
    ~\E k \in 1..Len(security_checks) :
        /\ ~security_checks[k].passed
        /\ security_checks[k].severity = "critical"

\* a faulty variant of the definition below: from the second analysis on the checks come in another order
RunChecksOrderDependsOnHistory(parsed_url, earlier) ==
    IF earlier = 0
    THEN check_protocol(parsed_url) \o check_admin_exposure(parsed_url)
    ELSE check_admin_exposure(parsed_url) \o check_protocol(parsed_url)
\* the checks of analyze_endpoint, in the order they are run; earlier is the
\* number of analyses the analyzer has made before
RunChecks(parsed_url, earlier) ==
    check_protocol(parsed_url)
    \o check_admin_exposure(parsed_url)
    \o check_debug_exposure(parsed_url)
    \o check_authentication(parsed_url)
    \o check_api_versioning(parsed_url)
    \o check_security_headers(parsed_url)
    \o check_cors_policy(parsed_url)
    \o check_rate_limiting(parsed_url)
    \o check_injection_vulnerabilities(parsed_url)
    \o check_information_disclosure(parsed_url)
    \o check_sensitive_data_exposure(parsed_url)

\* the URLs handed to the analyzer
AnalyzedUrls ==
    {<<"h","t","t","p",":","/","/","a",".","t","e","s","t","/","a","d","m","i","n">>,
     <<"h","t","t","p","s",":","/","/","a",".","t","e","s","t","/","a","d","m","i","n">>,
     <<"h","t","t","p","s",":","/","/","a",".","t","e","s","t","/","a","p","i","?","r","o","l","e","=","A","d","m","i","n">>,
     <<"h","t","t","p","s",":","/","/","a",".","t","e","s","t","/","v","1","/","l","o","g","i","n">>,
     <<"h","t","t","p","s",":","/","/","a",".","t","e","s","t","/","d","e","b","u","g","/","x">>,
     <<"h","t","t","p","s",":","/","/","a",".","t","e","s","t","/","x","?","q","=",".",".","/","&","c","o","n","f","i","r","m","=","1">>,
     <<"f","t","p",":","/","/","a",".","t","e","s","t","/","u","s","e","r">>,
     <<"H","T","T","P","S",":","/","/","a",".","t","e","s","t","/">>,
     <<"a",".","t","e","s","t","/","M","a","n","a","g","e","?","n","e","x","t">>,
     UrlBadHost}

\* the timestamp of an analysis is not part of the model
SecurityAnalyzer_result(endpoint, earlier) ==
    LET parsed_url      == urlparse(endpoint)
        security_checks == RunChecks(parsed_url, earlier)
    IN  [is_secure       |-> IsSecure(security_checks),
         security_checks |-> security_checks,
         details         |-> [protocol |-> parsed_url.scheme,
                              hostname |-> parsed_url.netloc,
                              path     |-> parsed_url.path]]

AnalyzerInit == analyses = <<>>

\* SecurityAnalyzer.analyze_endpoint: every check coroutine returns without
\* suspending, so a call is one step.  The caller keeps what it got.
SecurityAnalyzer_analyze_endpoint(endpoint) ==
    /\ Len(analyses) < MaxAnalyses
    /\ analyses' = Append(analyses,
           IF UrlparseRaises(endpoint)
           THEN [endpoint |-> endpoint, raised |-> TRUE, result |-> None]
           ELSE [endpoint |-> endpoint, raised |-> FALSE,
                 result |-> SecurityAnalyzer_result(endpoint, Len(analyses))])
    /\ UNCHANGED not_analyzer

(***************************************************************************)
(* Specifications.                                                         *)
(***************************************************************************)
Init == BulkInit /\ AIInit /\ SwaggerInit /\ AnalyzerInit /\ BatchInit
            /\ StorageInit

Processing ==
    \/ \E j \in JobIds : process_bulk_analysis_start(j)
    \/ \E j \in JobIds, i \in 1..MaxEndpoints : analyze_with_semaphore_enter(j, i)
    \/ \E j \in JobIds, i \in 1..MaxEndpoints : analyze_with_semaphore_exit(j, i)
    \/ \E j \in JobIds : process_bulk_analysis_finish(j)

\* bulk jobs submitted through the route
Next ==
    \/ \E j \in JobIds, endpoints \in EndpointLists : analyze_endpoints_bulk(j, endpoints)
    \/ Processing

Spec == Init /\ [][Next]_vars

\* one bulk job submitted through BatchController, with or without a
\* background task runner
ControllerJobIds == {"job-1"}

NextController ==
    \/ \E j \in ControllerJobIds, endpoints \in EndpointLists, bg \in BOOLEAN :
           BatchController_analyze_endpoints_bulk(j, endpoints, bg)
    \/ Processing

SpecController == Init /\ [][NextController]_vars

\* one bulk job in which an analysis may hang.  The event loop runs every
\* coroutine that is ready: a step of the processing that stays possible
\* is eventually taken.
NextStuck ==
    \/ \E j \in ControllerJobIds, endpoints \in EndpointLists :
           analyze_endpoints_bulk(j, endpoints)
    \/ Processing
    \/ \E j \in ControllerJobIds, i \in 1..MaxEndpoints :
           analyze_endpoint_never_returns(j, i)

SpecStuck == Init /\ [][NextStuck]_vars /\ WF_vars(Processing)

\* Calls of the StorageService while days pass.  The event loop runs every
\* coroutine that is ready: a step that stays possible is eventually taken.
StorageCalls == {"save_analysis", "get_analysis", "delete_analysis"}

NextStorage ==
    \/ \E name \in StorageCalls, id \in StorageIds : StorageService_call(name, id)
    \/ cleanup_old_analyses(CleanupDays)
    \/ Tick((CleanupDays + 1) * SecondsPerDay)

SpecStorage == Init /\ [][NextStorage]_vars /\ WF_vars(NextStorage)

\* one chunked batch
NextBatch ==
    \/ \E endpoints \in EndpointLists, batch_size \in 1..MaxBatchSize :
           analyze_endpoints_batch(endpoints, batch_size)
    \/ \E k \in 1..MaxEndpoints : analyze_endpoint_with_options_enter(k)
    \/ \E k \in 1..MaxEndpoints : analyze_endpoint_with_options_exit(k)
    \/ analyze_endpoints_batch_next

SpecBatch == Init /\ [][NextBatch]_vars

\* one caller of the AISecurityAnalyzer, making its calls one after another
SequentialCallers == {"c1"}

NextAI ==
    \/ \E c \in SequentialCallers, req \in AIRequests :
           AISecurityAnalyzer_analyze_endpoint(c, req)
    \/ \E c \in SequentialCallers : call_openrouter_api_post(c)
    \/ \E c \in SequentialCallers, outcome \in Outcomes :
           call_openrouter_api_response(c, outcome)
    \/ \E d \in TickSteps : Tick(d)

SpecAI == Init /\ [][NextAI]_vars

\* two tasks calling one AISecurityAnalyzer at the same time; the provider
\* answers 200 with a JSON text or 500
ConcurrentOutcomes ==
    {outcome \in Outcomes :
        /\ outcome.kind = "response"
        /\ outcome.status \in {200, 500}
        /\ outcome.text = TextJson
        /\ outcome.choices = (outcome.status = 200)}

NextAIConcurrent ==
    \/ \E c \in Callers, req \in AIRequests :
           /\ caller[c].n < MaxConcurrentCalls
           /\ AISecurityAnalyzer_analyze_endpoint(c, req)
    \/ \E c \in Callers : call_openrouter_api_post(c)
    \/ \E c \in Callers, outcome \in ConcurrentOutcomes :
           call_openrouter_api_response(c, outcome)
    \/ Tick(min_interval)

SpecAIConcurrent == Init /\ [][NextAIConcurrent]_vars

\* a lone caller that asks for the first fingerprint again or for the next
\* new one, the provider answering 200 with a JSON text every time
NextCacheFill ==
    \E n \in 1..MaxFingerprints, outcome \in ConcurrentOutcomes :
        /\ n \in {1, Cardinality(DOMAIN response_cache) + 1}
        /\ outcome.status = 200
        /\ analyze_endpoint_alone("c1", FingerprintRequest(n), outcome)

SpecCacheFill == Init /\ [][NextCacheFill]_vars

\* analyses of specification URLs by one OpenAPIAnalysisService
NextSwagger ==
    \/ \E api_key_set \in BOOLEAN : OpenAPIAnalysisService_init(api_key_set)
    \/ \E fetch \in Fetches : analyze_swagger_url(fetch)
    \/ \E outcome \in SwaggerAIOutcomes : analyze_swagger_url_ai_done(outcome)

SpecSwagger == Init /\ [][NextSwagger]_vars

\* analyses by one SecurityAnalyzer
NextAnalyzer ==
    \E endpoint \in AnalyzedUrls : SecurityAnalyzer_analyze_endpoint(endpoint)

SpecAnalyzer == Init /\ [][NextAnalyzer]_vars

(***************************************************************************)
(* Properties of the bulk analysis.                                        *)
(***************************************************************************)
Started(j)  == phase[j] \in {"submitted", "gathering", "done"}
Indices(j)  == 1..Len(task[j])
InFlight(j) == Cardinality({i \in Indices(j) : task[j][i].pc = "analyzing"})
Raised(j)   == {i \in Indices(j) : task[j][i].pc = "raised"}
Returned(j) == {i \in Indices(j) : task[j][i].pc = "returned"}
Job(j)      == bulk_status[RequestId(j)]

\* C1: in every reachable state of every bulk job, completed + failed is at
\* most total_endpoints, and it equals total_endpoints whenever the status
\* is "completed".
C1_CountsWithinTotal ==
    \A id \in DOMAIN bulk_status :
        LET b == bulk_status[id]
        IN  /\ b.completed + b.failed <= b.total_endpoints
            /\ b.status = "completed" => b.completed + b.failed = b.total_endpoints

\* a completed job with both successes and failures
C1_Witness ==
    \E id \in DOMAIN bulk_status :
        /\ bulk_status[id].status = "completed"
        /\ bulk_status[id].completed >= 1
        /\ bulk_status[id].failed >= 1

\* C2: within one bulk job, the number of endpoints whose analyze_endpoint
\* call is in flight never exceeds MAX_CONCURRENT_ANALYSES, however the
\* tasks interleave and however many endpoints were submitted.
C2_InFlightBounded ==
    \A j \in JobIds : InFlight(j) <= MAX_CONCURRENT_ANALYSES

\* the limit is reached while a further endpoint waits for a slot
C2_Witness ==
    \E j \in JobIds :
        /\ InFlight(j) = MAX_CONCURRENT_ANALYSES
        /\ FirstQueued(j) # 0

\* C3: a job some of whose analyses raise never becomes "failed": it is
\* "processing" until the tally and then "completed", with failed = the
\* number of analyses that raised, completed = the number that returned,
\* and results = exactly the returned entities.
C3_PartialFailureCompletes ==
    \A j \in JobIds : Started(j) =>
        /\ Job(j).status # "failed"
        /\ phase[j] \in {"submitted", "gathering"} => Job(j).status = "processing"
        /\ phase[j] = "done" =>
              /\ Job(j).status = "completed"
              /\ Job(j).failed = Cardinality(Raised(j))
              /\ Job(j).completed = Cardinality(Returned(j))
              /\ Len(Job(j).results) = Cardinality(Returned(j))
              /\ {Job(j).results[k] : k \in 1..Len(Job(j).results)}
                    = {task[j][i].result : i \in Returned(j)}

\* a finished job in which one analysis raised and another returned
C3_Witness ==
    \E j \in JobIds :
        /\ phase[j] = "done"
        /\ Raised(j) # {}
        /\ Returned(j) # {}

C5_Pollable ==
    \A j \in JobIds : Started(j) =>
        /\ get_bulk_analysis_status(RequestId(j)) # None
        /\ get_bulk_analysis_status(RequestId(j)).request_id = RequestId(j)
        /\ get_bulk_analysis_status(RequestId(j)).total_endpoints
              = Len(request[j].endpoints)
        /\ response[j] # None => response[j].request_id = RequestId(j)

\* C5 as stated: a job, once created, is returned by every status lookup
\* with the submitted total, and the submission has returned its handle
\* before any per-endpoint analysis begins.
C5_HandleBeforeAnyAnalysis ==
    /\ C5_Pollable
    /\ \A j \in JobIds :
          (\E i \in Indices(j) : task[j][i].pc # "queued") => response[j] # None

\* C5, amended: a job, once created, is returned by every status lookup
\* with the submitted total.  Given a background task runner the submission
\* returns the handle before any per-endpoint analysis begins; without one
\* BatchController.analyze_endpoints_bulk awaits the processing and returns
\* the handle, already "completed", only when every analysis has settled.
C5_HandleImmediateOnlyInBackground ==
    /\ C5_Pollable
    /\ \A j \in JobIds : Started(j) =>
          IF request[j].background_tasks
          THEN /\ response[j] # None
               /\ response[j].status = "processing"
          ELSE /\ (response[j] = None) <=> (phase[j] # "done")
               /\ response[j] # None =>
                     /\ response[j].status = "completed"
                     /\ \A i \in Indices(j) : TaskSettled(task[j][i])

\* a submission without a background task runner has an analysis in flight
\* and has not returned yet, while its job can already be looked up
C5_Witness ==
    \E j \in JobIds :
        /\ Started(j)
        /\ ~request[j].background_tasks
        /\ InFlight(j) >= 1
        /\ response[j] = None
        /\ get_bulk_analysis_status(RequestId(j)) # None

\* C6: a job's status moves only from "processing" to "completed" or
\* "failed", and once it is terminal neither the status nor the counters
\* nor the results change again; no job disappears.
C6_TerminalOnce ==
    [][\A id \in DOMAIN bulk_status :
          /\ id \in DOMAIN bulk_status'
          /\ bulk_status[id].status \in {"processing", "completed", "failed"}
          /\ bulk_status[id].status \in {"completed", "failed"}
                => bulk_status'[id] = bulk_status[id]
          /\ bulk_status[id].status = "processing"
                => bulk_status'[id].status \in {"processing", "completed", "failed"}
      ]_vars

\* one job is terminal, with results, while another is still being processed
C6_Witness ==
    \E j, k \in JobIds :
        /\ phase[j] = "done"
        /\ Job(j).status = "completed"
        /\ Job(j).completed >= 1
        /\ phase[k] = "gathering"
        /\ InFlight(k) >= 1

Stuck(j) == {i \in Indices(j) : task[j][i].pc = "stuck"}

\* C20: an analysis of a bulk job that never returns blocks only itself:
\* every other endpoint of the job is eventually analysed and the job
\* eventually leaves "processing" for a terminal status.
C20_StuckAnalysisBlocksOnlyItself ==
    (Stuck("job-1") # {}) ~>
        /\ \A i \in Indices("job-1") \ Stuck("job-1") : TaskSettled(task["job-1"][i])
        /\ Started("job-1")
        /\ Job("job-1").status \in {"completed", "failed"}

\* analyses in flight in the whole service process, over all its bulk jobs
TotalInFlight == InFlight("job-1") + InFlight("job-2")

\* C21: across all the jobs running at the same time in one service
\* process, the number of per-endpoint analyses in flight never exceeds
\* MAX_CONCURRENT_ANALYSES.
C21_TotalInFlightBounded == TotalInFlight <= MAX_CONCURRENT_ANALYSES

\* C27: while a bulk job's status is "processing" its counters are zero and
\* its results list is empty, however many of its analyses have finished:
\* only the orchestrating coroutine writes them, after gather.
C27_NoTallyWhileProcessing ==
    \A id \in DOMAIN bulk_status :
        bulk_status[id].status = "processing" =>
            /\ bulk_status[id].completed = 0
            /\ bulk_status[id].failed = 0
            /\ bulk_status[id].results = <<>>

\* a job still being processed of which one analysis has returned, one has
\* raised and one is in flight
C27_Witness ==
    \E j \in JobIds :
        /\ phase[j] = "gathering"
        /\ Job(j).status = "processing"
        /\ Returned(j) # {}
        /\ Raised(j) # {}
        /\ InFlight(j) >= 1

\* the records the analysis of endpoint i of submission j has saved
RecordsOf(j, i) == {id \in DOMAIN storage : id[1] = j /\ id[2] = i}

\* C28: once analyze_endpoint has finished for an endpoint, returned or
\* raised, storage holds no record created by that call whose status is
\* still "analyzing".
C28_NoAnalyzingRecordLeft ==
    \A j \in JobIds : \A i \in Indices(j) :
        TaskSettled(task[j][i]) =>
            \A id \in RecordsOf(j, i) : storage[id].status # "analyzing"

(***************************************************************************)
(* Properties of the chunked batch.                                        *)
(***************************************************************************)
\* the endpoint at position index has begun to be analysed / has settled:
\* analyze_endpoint saves a record when it begins and another when it ends
BatchStarted(index) == <<"batch", index, 1>> \in DOMAIN storage
BatchSettled(index) ==
    \/ <<"batch", index, 2>> \in DOMAIN storage
    \/ /\ BatchStarted(index)
       /\ storage[<<"batch", index, 1>>].status = "completed"
BatchInFlight ==
    Cardinality({index \in 1..Len(batch.endpoints) :
                    BatchStarted(index) /\ ~BatchSettled(index)})

\* C22: in the chunked strategy no endpoint of a later chunk starts before
\* every endpoint of the earlier chunks has settled, at most batch_size
\* analyses of the batch are in flight, and every submitted endpoint belongs
\* to exactly one chunk.
C22_ChunksInTurn ==
    /\ \A c \in 1..Len(batch.chunks) : \A d \in 1..Len(batch.chunks) :
           c < d => \A x \in batch.chunks[c] : \A y \in batch.chunks[d] :
                        BatchStarted(y) => BatchSettled(x)
    /\ BatchInFlight <= batch.batch_size
    /\ \A c \in 1..Len(batch.chunks) : \A d \in 1..Len(batch.chunks) :
           c # d => batch.chunks[c] \cap batch.chunks[d] = {}
    /\ batch.pc = "done" =>
           \A index \in 1..Len(batch.endpoints) :
               \E c \in 1..Len(batch.chunks) : index \in batch.chunks[c]

\* the second chunk is in flight after a first chunk of batch_size
\* endpoints, one of which raised
C22_Witness ==
    /\ batch.pc = "gathering"
    /\ Len(batch.chunks) = 2
    /\ Cardinality(batch.chunks[1]) = batch.batch_size
    /\ batch.batch_size >= 2
    /\ \E x \in batch.chunks[1] : <<"batch", x, 2>> \in DOMAIN storage
    /\ \E y \in batch.chunks[2] : BatchStarted(y) /\ ~BatchSettled(y)

\* the endpoints of the batch whose analysis raises
BatchRaising == {index \in 1..Len(batch.endpoints) :
                    AnalysisRaises(batch.endpoints[index])}

\* C23: in the chunked strategy an endpoint whose analysis raises counts as
\* failed and not as completed: the returned failed count is the number of
\* endpoints whose analysis raised.
C23_ChunkedFailuresCounted ==
    batch.pc = "done" =>
        /\ batch.returned.failed = Cardinality(BatchRaising)
        /\ batch.returned.completed =
               Len(batch.endpoints) - Cardinality(BatchRaising)

(***************************************************************************)
(* Properties of the StorageService.                                       *)
(***************************************************************************)
\* C29: cleanup_old_analyses always terminates: it returns the number of
\* analyses older than the cutoff, exactly those are removed, and the lock
\* is free again for save_analysis, get_analysis and delete_analysis, also
\* when at least one stored analysis is older than the cutoff.
C29_CleanupTerminates ==
    (cleanup.pc # "idle") ~>
        /\ cleanup.pc = "done"
        /\ ~storage_lock
        /\ cleanup.returned =
               <<Cardinality(AnalysesToDelete(cleanup.before, cleanup.cutoff_date))>>
        /\ DOMAIN storage \cap DOMAIN cleanup.before =
               DOMAIN cleanup.before
                   \ AnalysesToDelete(cleanup.before, cleanup.cutoff_date)

(***************************************************************************)
(* Properties of the AI analyzer.                                          *)
(***************************************************************************)
\* the step in which caller c starts an analyze_endpoint call
StartsCall(c) == caller'[c].n = caller[c].n + 1
\* the step in which the provider's answer reaches caller c and the call returns
Answered(c)   == caller[c].pc = "calling" /\ caller'[c].pc = "idle"

\* the fallback result: risk 'unknown', not secure, exactly one
\* 'analysis_error' vulnerability that carries the error text
IsFallback(r) ==
    /\ r.risk_level = "unknown"
    /\ r.is_secure = FALSE
    /\ Len(r.vulnerabilities) = 1
    /\ r.vulnerabilities[1].type = "analysis_error"
    /\ r.fallback_used
    /\ r.vulnerabilities[1].description = r.error

\* timeout, transport error or non-200 status
ProviderFailed(outcome) ==
    \/ outcome.kind \in {"timeout", "client_error"}
    \/ outcome.kind = "response" /\ outcome.status # 200

\* a 200 answer whose text holds no JSON object or one that does not decode
Undecodable(outcome) ==
    /\ outcome.kind = "response"
    /\ outcome.status = 200
    /\ outcome.choices
    /\ outcome.text \in {TextNoJson, TextBadJson, TextClosedFirst}

\* C7: a call for a fingerprint whose entry was stored less than the TTL
\* ago returns the stored payload and issues no outbound call; a call for a
\* fingerprint whose entry is as old as the TTL or older (or absent) does
\* not return it: the entry is dropped and a new outbound call is issued,
\* at once or after the rate-limit sleep.
C7_CacheHitWithinTtl ==
    [][\A c \in Callers : StartsCall(c) =>
          LET key == caller'[c].key
          IN  IF /\ key \in DOMAIN response_cache
                 /\ now - response_cache[key].timestamp < cache_ttl
              THEN /\ caller'[c].pc = "idle"
                   /\ caller'[c].result = response_cache[key].result
                   /\ outbound' = outbound
                   /\ response_cache' = response_cache
              ELSE /\ caller'[c].pc \in {"sleeping", "calling"}
                   /\ caller'[c].result = None
                   /\ key \notin DOMAIN response_cache'
                   /\ caller'[c].pc = "calling" => outbound'[key] = outbound[key] + 1
                   /\ caller'[c].pc = "sleeping" => caller'[c].wake > now
      ]_vars

\* a second call returned, later but within the TTL, the payload stored by
\* a successful first call, and the provider saw one request only
C7_Witness ==
    \E c \in Callers :
        /\ caller[c].pc = "idle"
        /\ caller[c].n = 2
        /\ caller[c].from_cache
        /\ caller[c].key \in DOMAIN response_cache
        /\ caller[c].result = response_cache[caller[c].key].result
        /\ ~caller[c].result.fallback_used
        /\ now > response_cache[caller[c].key].timestamp
        /\ outbound[caller[c].key] = 1

\* C8: when the provider call fails (timeout, transport error, non-200
\* status) analyze_endpoint returns the fallback result and leaves the
\* cache unchanged, with no entry for the fingerprint, so that the next
\* call with that fingerprint goes to the provider again.
C8_ProviderFailureNotCached ==
    [][\A c \in Callers :
          (Answered(c) /\ ProviderFailed(caller'[c].outcome)) =>
              /\ IsFallback(caller'[c].result)
              /\ caller'[c].result.error \in
                    {"OpenRouter API timeout", "OpenRouter API client error",
                     "OpenRouter API error"}
              /\ response_cache' = response_cache
              /\ caller'[c].key \notin DOMAIN response_cache'
      ]_vars

\* a call answered with status 402 returned the fallback; it was the second
\* request to the provider for that fingerprint with no time gone by
C8_Witness ==
    \E c \in Callers :
        /\ caller[c].pc = "idle"
        /\ caller[c].outcome # None
        /\ caller[c].outcome.status = 402
        /\ IsFallback(caller[c].result)
        /\ caller[c].key \notin DOMAIN response_cache
        /\ outbound[caller[c].key] = 2
        /\ ticks = 0

\* C9: when the provider answers 200 with a text that holds no JSON object
\* or one that fails to decode, analyze_endpoint returns the fallback result
\* and does not store it: afterwards the cache holds no entry for the
\* fingerprint.
C9_ParseFailureNotCached ==
    [][\A c \in Callers :
          (Answered(c) /\ Undecodable(caller'[c].outcome)) =>
              /\ IsFallback(caller'[c].result)
              /\ caller'[c].key \notin DOMAIN response_cache'
      ]_vars

\* caller c is past the cache lookup of a call and has not returned
InFlightCall(c) == caller[c].pc \in {"sleeping", "calling"}

\* C18: the check-then-insert on the AI cache is mutually exclusive: of the
\* concurrent analyze_endpoint calls with one fingerprint and no valid
\* cache entry at most one goes on to the provider, so no two calls with
\* the same fingerprint are past the cache lookup at the same time.
C18_SingleFlightPerFingerprint ==
    \A c \in Callers, d \in Callers :
        (c # d /\ InFlightCall(c) /\ InFlightCall(d))
            => caller[c].key # caller[d].key

\* the step in which a session.post is issued
Posts == last_post' # last_post \/ outbound' # outbound

\* C19: any two outbound calls of one analyzer, successful or failed, are
\* started at least min_interval apart, whatever the interleaving of the
\* callers.
C19_OutboundCallsSpaced ==
    [][(Posts /\ last_post # NoPost) => now - last_post >= min_interval]_vars

\* C24: the AI response cache is bounded: after any sequence of successful
\* analyze_endpoint calls with distinct fingerprints it never holds more
\* than 100 entries.
C24_CacheBounded == Cardinality(DOMAIN response_cache) <= CACHE_CLEAN_SIZE

(***************************************************************************)
(* Properties of the Swagger analysis.                                     *)
(***************************************************************************)
\* the specification loaded and parsed
LoadedAndParsed ==
    IF swagger_call.spec = None THEN FALSE ELSE ~swagger_call.spec.error

\* the AI call was made and answered 200 with a well-formed body
AICallSucceeded ==
    IF swagger_call.ai_outcome = None THEN FALSE
    ELSE /\ swagger_call.ai_outcome.kind = "response"
         /\ swagger_call.ai_outcome.status = 200
         /\ swagger_call.ai_outcome.choices

\* C10: analyze_swagger_url always ends with a report; for a specification
\* that loaded and parsed the report has success = true whatever the AI
\* step came to (no client, success, 402, another status, an exception),
\* and summary.ai_analysis_available is true exactly when the AI call
\* succeeded.
C10_AiFailureKeepsSuccess ==
    swagger_call.pc = "done" =>
        /\ swagger_call.report # None
        /\ LoadedAndParsed =>
              /\ swagger_call.report.success
              /\ swagger_call.report.summary.ai_analysis_available = AICallSucceeded
              /\ ~swagger_service.openrouter_client
                    => swagger_call.report.ai_analysis = None

\* the AI call of a parsed specification was answered 402 and the report
\* is a success without AI analysis
C10_Witness ==
    /\ swagger_call.pc = "done"
    /\ LoadedAndParsed
    /\ swagger_call.ai_outcome # None
    /\ swagger_call.ai_outcome.status = 402
    /\ swagger_call.report.success
    /\ ~swagger_call.report.summary.ai_analysis_available
    /\ swagger_call.report.summary.total_endpoints >= 1

\* C11: whatever the load fails with (a timeout, a connection error, an
\* HTTP error status, invalid JSON, invalid YAML, any other exception),
\* parse_from_url does not raise and returns the empty specification with
\* a non-empty error list, and analyze_swagger_url returns a report with
\* success = false, an error message and those parser errors; after a
\* successful load the error list is empty.
C11_LoadFailureReported ==
    swagger_call.pc = "done" =>
        LET parsed == parse_from_url(swagger_call.fetch)
        IN  /\ ~parsed.raised
            /\ swagger_call.report # None
            /\ swagger_call.fetch.ok => parsed.errors = <<>>
            /\ ~swagger_call.fetch.ok =>
                  /\ parsed.spec = None
                  /\ Len(parsed.errors) >= 1
                  /\ ~swagger_call.report.success
                  /\ swagger_call.report.error # ""
                  /\ swagger_call.report.parser_errors = parsed.errors

\* the load ended with a connect timeout, which is a ConnectionError and a
\* Timeout at once, and the report carries the entry of the first clause
C11_Witness ==
    /\ swagger_call.pc = "done"
    /\ ~swagger_call.fetch.ok
    /\ swagger_call.fetch.error = "ConnectTimeout"
    /\ ~swagger_call.report.success
    /\ swagger_call.report.parser_errors = <<"timeout while loading the specification">>

CountedIssues(summary) ==
    summary.critical_issues + summary.high_issues + summary.medium_issues
        + summary.low_issues

\* C15: the security_score of a report is max(0, 100 - 5*n) for the n
\* counted issues (critical + high + medium + low): an integer from 0 to
\* 100, 100 when n = 0, and one more finding never raises it.
C15_ScoreFlooredAndMonotone ==
    (swagger_call.pc = "done" /\ swagger_call.report.success) =>
        LET summary == swagger_call.report.summary
            n       == CountedIssues(summary)
        IN  /\ summary.security_score \in 0..100
            /\ summary.security_score = IF 100 - 5 * n >= 0 THEN 100 - 5 * n ELSE 0
            /\ n = 0 => summary.security_score = 100
            /\ SecurityScore(n + 1) <= summary.security_score

\* a report on a specification with more than twenty findings, the score
\* being 0
C15_Witness ==
    /\ swagger_call.pc = "done"
    /\ swagger_call.report.success
    /\ CountedIssues(swagger_call.report.summary) > 20
    /\ swagger_call.report.summary.security_score = 0

\* a document that is a JSON object without a "paths" section, its
\* "openapi" value being absent or a string
LacksPaths(document) ==
    /\ document.top = "dict"
    /\ ~document.has_paths
    /\ document.openapi # None => document.openapi.type = "str"

C17_MethodPathUnique ==
    (swagger_call.pc # "idle" /\ swagger_call.fetch.ok) =>
        LET inventory == parse_paths(SpecPaths(swagger_call.fetch.document))
        IN  \A i \in 1..Len(inventory), k \in 1..Len(inventory) :
                (inventory[i].method = inventory[k].method
                    /\ inventory[i].path = inventory[k].path) => i = k

\* the (method, path) keys of a list of inventory endpoints, in order
EndpointKeys(endpoints) ==
    [k \in 1..Len(endpoints) |-> <<endpoints[k].method, endpoints[k].path>>]

\* C25: the structural security assessment lists an endpoint under
\* protected_endpoints when it has a security requirement of its own or the
\* document declares a non-empty global one, and under
\* unprotected_endpoints otherwise.
C25_GlobalSecurityInherited ==
    (swagger_call.pc # "idle" /\ swagger_call.structure_analysis # None) =>
        LET assessment == swagger_call.structure_analysis.security_assessment
            global     == swagger_call.spec.security.global_requirements
            protected(e)   == e.security \/ global
            unprotected(e) == ~(e.security \/ global)
        IN  /\ assessment.protected_endpoints =
                   EndpointKeys(SelectSeq(swagger_call.spec.paths, protected))
            /\ assessment.unprotected_endpoints =
                   EndpointKeys(SelectSeq(swagger_call.spec.paths, unprotected))

\* an entry of a paths map that is an operation free of malformed parts
WellFormedOperation(e) ==
    /\ e.item_dict
    /\ Lower(e.method) \in ParsedMethods
    /\ e.operation # None
    /\ e.operation.parameters = "list"
    /\ e.operation.responses = "dict"

\* C26: the structural walk is defensive at every level: whatever element
\* of the paths map is malformed (a path item, an operation, a parameters
\* value, a parameter, a response), parse_specification returns a parsed
\* specification, not an error result, whose inventory holds every
\* well-formed operation.
C26_DefensiveWalk ==
    (/\ swagger_call.pc # "idle"
     /\ swagger_call.fetch.ok
     /\ swagger_call.fetch.document.top = "dict"
     /\ ~validate_spec_raises(swagger_call.fetch.document)) =>
        /\ swagger_call.spec # None
        /\ ~swagger_call.spec.error
        /\ EndpointKeys(swagger_call.spec.paths) =
               [k \in 1..Len(SelectSeq(SpecPaths(swagger_call.fetch.document),
                                      WellFormedOperation)) |->
                   LET e == SelectSeq(SpecPaths(swagger_call.fetch.document),
                                      WellFormedOperation)[k]
                   IN  <<Upper(e.method), e.path>>]

\* C30: the endpoint counts of one report agree: statistics.total_endpoints
\* (which is summary.total_endpoints) equals the structure summary's
\* total_count, equals secured_endpoints + unsecured_endpoints and equals
\* the number of inventory endpoints whose method is GET, POST, PUT, DELETE
\* or PATCH.
C30_EndpointCountsAgree ==
    (swagger_call.pc = "done" /\ swagger_call.report.success) =>
        LET report   == swagger_call.report
            total    == report.structure_analysis.statistics.total_endpoints
            summary  == report.structure_analysis.summary
            counted(e) == Lower(e.method) \in CountedMethods
        IN  /\ report.summary.total_endpoints = total
            /\ summary.total_count = total
            /\ summary.secured_endpoints + summary.unsecured_endpoints = total
            /\ Len(SelectSeq(swagger_call.spec.paths, counted)) = total

(***************************************************************************)
(* Properties of the rule-based analyzer.                                  *)
(***************************************************************************)
Returns(k)   == ~analyses[k].raised
Checks(k)    == analyses[k].result.security_checks
Check(k, name) ==
    LET at == CHOOSE i \in 1..Len(Checks(k)) : Checks(k)[i].name = name
    IN  Checks(k)[at]
FailsWith(k, severity) ==
    \E i \in 1..Len(Checks(k)) :
        /\ ~Checks(k)[i].passed
        /\ Checks(k)[i].severity = severity

\* C12: in every result analyze_endpoint returns, is_secure is true exactly
\* when no check of security_checks has passed = false with severity
\* critical; failing checks of severity high, medium, low or info do not
\* make it false.
C12_SecureIffNoCriticalFailure ==
    \A k \in 1..Len(analyses) :
        Returns(k) =>
            (analyses[k].result.is_secure <=> ~FailsWith(k, "critical"))

\* an analysis whose checks fail with severity high and medium, none with
\* critical, and which is secure
C12_Witness ==
    \E k \in 1..Len(analyses) :
        /\ Returns(k)
        /\ FailsWith(k, "high")
        /\ FailsWith(k, "medium")
        /\ ~FailsWith(k, "critical")
        /\ analyses[k].result.is_secure

\* C13: in every result of analyze_endpoint a failing https_protocol check
\* has severity critical, and a failing admin_endpoint_exposure check has
\* severity high, whether the admin match is in the path or in a query
\* value.
C13_FailingSeverityOfCategory ==
    \A k \in 1..Len(analyses) :
        Returns(k) =>
            /\ ~Check(k, "https_protocol").passed
                  => Check(k, "https_protocol").severity = "critical"
            /\ ~Check(k, "admin_endpoint_exposure").passed
                  => Check(k, "admin_endpoint_exposure").severity = "high"

CheckNames ==
    <<"https_protocol", "admin_endpoint_exposure", "debug_endpoint_exposure",
      "authentication_endpoint", "api_versioning", "security_headers",
      "cors_policy", "rate_limiting", "injection_vulnerabilities",
      "information_disclosure", "sensitive_data_exposure">>

====
